---- MODULE Spec2Model ----
(***************************************************************************)
(* Model of emmylua_render.type_parser: the annotation grammar, the tree   *)
(* hydrator, the resolved type values, their stringifier, typevar          *)
(* substitution and the member resolver.                                   *)
(*                                                                         *)
(* A type string is a sequence of tokens; the token " " is whitespace,     *)
(* which the lexer ignores.  A resolved type is a record whose field cls   *)
(* is the name of its Python class.  An exception that leaves an operation *)
(* is the record Err(name of the exception).                               *)
(***************************************************************************)
EXTENDS Integers, Sequences, FiniteSets, TLC

(***************************************************************************)
(* Tokens                                                                  *)
(***************************************************************************)
WS == " "

PrimitiveKeywords ==
  {"nil", "boolean", "number", "integer", "userdata", "lightuserdata",
   "thread", "any", "void", "self", "function", "string", "unknown"}

\* identifiers (CNAME) that occur in the inputs and in the catalog
Identifiers == {"T", "U", "K", "a", "b", "x", "y", "m", "n", "val", "tbl", "opt",
                "gen", "arr", "f", "g", "p", "q", "r",
                "Foo", "Pair", "Base1", "Base2", "Mid", "Derived", "Derived2",
                "Leaf", "Bar", "Maybe", "Dict", "Tup", "Color", "Flag", "Box",
                "Broken", "BrokenFn", "Other", "pkg", "Cls", "table", "Gen",
                "Ref", "Mode", "Marker", "Tagged", "Child", "Kid", "own",
                "Fns", "one", "tup1", "tup2", "two", "none", "s",
                "Ring", "RingRef", "CycA", "CycB", "next"}

\* SIGNED_INT tokens and the text of int(token)
IntCanon == [t \in {"0", "1", "2", "01", "-0"} |->
               CASE t = "01" -> "1" [] t = "-0" -> "0" [] OTHER -> t]
IntTokens == DOMAIN IntCanon

\* ESCAPED_STRING tokens and their text between the quotes
StrValues == {"s", "t"}
Quote(v) == "\"" \o v \o "\""
StrTokens == {Quote(v) : v \in StrValues}
Unquote(t) == CHOOSE v \in StrValues : Quote(v) = t

(***************************************************************************)
(* Resolved types                                                          *)
(***************************************************************************)
None == [cls |-> "None"]
Err(e) == [cls |-> "Error", err |-> e]
IsErr(v) == v.cls = "Error"

PrimitiveType(n) == [cls |-> "PrimitiveType", name |-> n]
NilType == PrimitiveType("nil")
AnyType == PrimitiveType("any")
UnknownType == PrimitiveType("unknown")
StringType == PrimitiveType("string")
IntegerType == PrimitiveType("integer")
NumberType == PrimitiveType("number")

LiteralStr(v) == [cls |-> "LiteralStr", value |-> v]
LiteralInt(v) == [cls |-> "LiteralInt", value |-> v]
LiteralBool(v) == [cls |-> "LiteralBool", value |-> v]

StructType(n) == [cls |-> "StructType", name |-> n]
ClassType(n) == [cls |-> "ClassType", name |-> n]
AliasType(n, t) == [cls |-> "AliasType", name |-> n, typ |-> t]
EnumType(n, t) == [cls |-> "EnumType", name |-> n, typ |-> t]
GenericStructInstanceType(n, args) ==
  [cls |-> "GenericStructInstanceType", name |-> n, type_args |-> args]
GenericClassInstanceType(n, args) ==
  [cls |-> "GenericClassInstanceType", name |-> n, type_args |-> args]
GenericAliasInstanceType(n, args, t) ==
  [cls |-> "GenericAliasInstanceType", name |-> n, type_args |-> args, typ |-> t]
GenericEnumInstanceType(n, args, t) ==
  [cls |-> "GenericEnumInstanceType", name |-> n, type_args |-> args, typ |-> t]

TableType(fs, om) == [cls |-> "TableType", fields |-> fs, omitted |-> om]
NameKey(n) == [k |-> "name", name |-> n]
TypeKey(t) == [k |-> "type", typ |-> t]
UnionType(els, om) == [cls |-> "UnionType", elements |-> els, omitted |-> om]
IntersectionType(els, om) ==
  [cls |-> "IntersectionType", elements |-> els, omitted |-> om]
TupleType(els) == [cls |-> "TupleType", elements |-> els]
FunctionType(ps, r) == [cls |-> "FunctionType", params |-> ps, rets |-> r]
Param(n, t) == [name |-> n, typ |-> t]
NoName == "None"

StructClasses == {"StructType", "ClassType", "AliasType", "EnumType",
                  "GenericStructInstanceType", "GenericClassInstanceType",
                  "GenericAliasInstanceType", "GenericEnumInstanceType"}
GenericClasses == {"GenericStructInstanceType", "GenericClassInstanceType",
                   "GenericAliasInstanceType", "GenericEnumInstanceType"}
IsWrapper(v) == v.cls \in {"OptionalType", "ArrayType", "VariadicType"}

\* the wrapped value of a wrapper
Wrapped(v) == IF v.cls = "OptionalType" THEN v.inner ELSE v.element_type

\* the static base classes of a class, itself included
Bases(c) ==
  CASE c = "ClassType" -> {"ClassType", "StructType"}
    [] c = "AliasType" -> {"AliasType", "StructType"}
    [] c = "EnumType" -> {"EnumType", "StructType"}
    [] c = "GenericClassInstanceType" ->
         {"GenericClassInstanceType", "GenericStructInstanceType", "ClassType",
          "StructType"}
    [] c = "GenericAliasInstanceType" ->
         {"GenericAliasInstanceType", "GenericStructInstanceType", "AliasType",
          "StructType"}
    [] c = "GenericEnumInstanceType" ->
         {"GenericEnumInstanceType", "GenericStructInstanceType", "EnumType",
          "StructType"}
    [] c = "GenericStructInstanceType" ->
         {"GenericStructInstanceType", "StructType"}
    [] OTHER -> {c}

\* isinstance(v, c): a wrapper's class is created with the class of the value
\* it wraps among its bases, so it is an instance of whatever that value is
RECURSIVE IsInstance(_, _)
IsInstance(v, c) ==
  \/ c \in Bases(v.cls)
  \/ IsWrapper(v) /\ IsInstance(Wrapped(v), c)

\* type(name, (OptionalType, inner.__class__), {}) has no consistent method
\* resolution order when OptionalType is already among the bases of inner's class
OptionalType(x) ==
  IF IsErr(x) THEN x
  ELSE IF IsInstance(x, "OptionalType") THEN Err("TypeError")
  ELSE [cls |-> "OptionalType", inner |-> x]
ArrayType(x) ==
  IF IsErr(x) THEN x ELSE [cls |-> "ArrayType", element_type |-> x]
VariadicType(x) ==
  IF IsErr(x) THEN x
  ELSE IF IsInstance(x, "VariadicType") THEN Err("TypeError")
  ELSE [cls |-> "VariadicType", element_type |-> x]

\* The wrapper class whose methods (__str__, __getattribute__, is_optional,
\* substitute_typevars) a wrapper instance runs: the first wrapper class in the
\* method resolution order of its generated class.  An array of a value that
\* is already an instance of ArrayType inherits from that value's class alone.
RECURSIVE Owner(_)
Owner(v) ==
  IF v.cls = "ArrayType" /\ IsInstance(v.element_type, "ArrayType")
  THEN Owner(v.element_type)
  ELSE v.cls

\* An ArrayType instance that runs OptionalType's methods has no attribute
\* inner: every access of it re-enters __getattribute__ without end
Unbounded(v) == v.cls = "ArrayType" /\ Owner(v) = "OptionalType"

\* getattr(v, attr) for an attribute outside __orig_attrs: the value that
\* finally answers, or RecursionError
RECURSIVE Target(_)
Target(v) ==
  IF ~IsWrapper(v) THEN v
  ELSE IF Unbounded(v) THEN Err("RecursionError")
  ELSE Target(Wrapped(v))

RECURSIVE FilterSeq(_, _, _)
FilterSeq(s, keep, i) ==
  IF i > Len(s) THEN <<>>
  ELSE IF i \in keep THEN <<s[i]>> \o FilterSeq(s, keep, i + 1)
  ELSE FilterSeq(s, keep, i + 1)

\* the value under all the wrappers of v: what isinstance sees of v
RECURSIVE Core(_)
Core(v) == IF IsWrapper(v) THEN Core(Wrapped(v)) ELSE v

\* sub.inner for a value that is an instance of OptionalType
RECURSIVE InnerOf(_)
InnerOf(v) ==
  IF v.cls = "OptionalType" THEN v.inner
  ELSE IF Unbounded(v) THEN Err("RecursionError")
  ELSE InnerOf(Wrapped(v))

\* v.element_type for a value that is an instance of VariadicType
RECURSIVE ElementTypeOf(_)
ElementTypeOf(v) ==
  IF v.cls \in {"ArrayType", "VariadicType"} THEN v.element_type
  ELSE ElementTypeOf(v.inner)

(***************************************************************************)
(* Equality and hashing: the __eq__ and __hash__ the dataclasses generate. *)
(* __eq__ answers only when both operands have the very same class; each   *)
(* wrapper instance has a class of its own, so two wrappers built by two   *)
(* constructor calls are never equal.                                      *)
(***************************************************************************)
RECURSIVE PyEq(_, _)
PyEqSeq(s, t) ==
  /\ Len(s) = Len(t)
  /\ \A i \in 1..Len(s) : PyEq(s[i], t[i])
PyEqKey(j, k) ==
  /\ j.k = k.k
  /\ IF j.k = "name" THEN j.name = k.name ELSE PyEq(j.typ, k.typ)
\* PyEq with the struct classes compared by identity, as if their dataclass
\* had eq=False: two values built by two parses are then never equal
PyEqMutant(a, b) ==
  /\ ~IsWrapper(a)
  /\ ~IsWrapper(b)
  /\ a.cls = b.cls
  /\ a.cls \notin StructClasses \cup GenericClasses
  /\ a = b

PyEq(a, b) ==
  IF IsWrapper(a) \/ IsWrapper(b) THEN FALSE
  ELSE IF a.cls # b.cls THEN FALSE
  ELSE CASE a.cls = "None" -> TRUE
         [] a.cls = "PrimitiveType" -> a.name = b.name
         [] a.cls \in {"LiteralStr", "LiteralInt", "LiteralBool"} ->
              a.value = b.value
         [] a.cls \in GenericClasses ->
              a.name = b.name /\ PyEqSeq(a.type_args, b.type_args)
         [] a.cls \in StructClasses -> a.name = b.name
         [] a.cls = "TupleType" -> PyEqSeq(a.elements, b.elements)
         [] a.cls \in {"UnionType", "IntersectionType"} ->
              PyEqSeq(a.elements, b.elements) /\ a.omitted = b.omitted
         [] a.cls = "TableType" ->
              /\ Len(a.fields) = Len(b.fields)
              /\ \A i \in 1..Len(a.fields) :
                   /\ PyEqKey(a.fields[i][1], b.fields[i][1])
                   /\ PyEq(a.fields[i][2], b.fields[i][2])
              /\ a.omitted = b.omitted
         [] a.cls = "FunctionType" ->
              /\ Len(a.params) = Len(b.params)
              /\ \A i \in 1..Len(a.params) :
                   /\ a.params[i].name = b.params[i].name
                   /\ PyEq(a.params[i].typ, b.params[i].typ)
              /\ PyEq(a.rets, b.rets)
         [] OTHER -> FALSE

\* hash(v) reads the compared fields; it raises RecursionError when it meets
\* an array that runs OptionalType's __getattribute__
RECURSIVE HashRaises(_)
HashRaises(v) ==
  IF IsWrapper(v) THEN Unbounded(v) \/ HashRaises(Wrapped(v))
  ELSE CASE v.cls \in GenericClasses ->
              \E i \in 1..Len(v.type_args) : HashRaises(v.type_args[i])
         [] v.cls \in {"TupleType", "UnionType", "IntersectionType"} ->
              \E i \in 1..Len(v.elements) : HashRaises(v.elements[i])
         [] v.cls = "TableType" ->
              \E i \in 1..Len(v.fields) :
                \/ v.fields[i][1].k = "type" /\ HashRaises(v.fields[i][1].typ)
                \/ HashRaises(v.fields[i][2])
         [] v.cls = "FunctionType" ->
              \/ \E i \in 1..Len(v.params) : HashRaises(v.params[i].typ)
              \/ HashRaises(v.rets)
         [] OTHER -> FALSE

\* TableType.fields: the dict built from _fields; a key that is already
\* present keeps its place and takes the later value
TableDict(fs) ==
  LET same(i, j) == i = j \/ PyEqKey(fs[i][1], fs[j][1])
      firsts == {i \in 1..Len(fs) : \A j \in 1..(i - 1) : ~same(j, i)}
      last(i) == CHOOSE j \in i..Len(fs) :
                   /\ same(i, j)
                   /\ \A l \in (j + 1)..Len(fs) : ~same(i, l)
  IN FilterSeq([i \in 1..Len(fs) |-> <<fs[i][1], fs[last(i)][2]>>], firsts, 1)

(***************************************************************************)
(* Stringifier: __str__ of every class.  The result is a token sequence;   *)
(* a raised exception is the one-token sequence <<"!" \o its name>>.        *)
(***************************************************************************)
StrErr(e) == <<"!" \o e>>
StrErrors == {StrErr("RecursionError"), StrErr("KeyError"), StrErr("RuntimeError")}
IsStrErr(s) == s \in StrErrors

RECURSIVE JoinFrom(_, _, _)
JoinFrom(parts, sep, i) ==
  IF i > Len(parts) THEN <<>>
  ELSE IF i = Len(parts) THEN parts[i]
  ELSE parts[i] \o sep \o JoinFrom(parts, sep, i + 1)

\* sep.join(parts); an exception raised while a part was rendered propagates
Join(parts, sep) ==
  IF \E i \in 1..Len(parts) : IsStrErr(parts[i])
  THEN parts[CHOOSE i \in 1..Len(parts) :
               /\ IsStrErr(parts[i])
               /\ \A j \in 1..(i - 1) : ~IsStrErr(parts[j])]
  ELSE JoinFrom(parts, sep, 1)

\* StructType.__str__: the dotted name
NameTokens(n) == JoinFrom([i \in 1..Len(n) |-> <<n[i]>>], <<".">>, 1)

\* str(bool).lower() / str(int) / '"' + value + '"'
LiteralTokens(v) ==
  CASE v.cls = "LiteralStr" -> <<Quote(v.value)>>
    [] v.cls = "LiteralBool" -> <<IF v.value = "True" THEN "true" ELSE "false">>
    [] OTHER -> <<v.value>>

Paren(s) == IF IsStrErr(s) THEN s ELSE <<"(">> \o s \o <<")">>
Suffixed(s, suffix) == IF IsStrErr(s) THEN s ELSE s \o suffix

\* the attribute rets of an instance of FunctionType, read through wrappers
RetsOf(v) == IF IsErr(Target(v)) THEN Target(v) ELSE Target(v).rets

RECURSIVE Str(_)
\* FunctionType.__str__
FunctionStr(v) ==
  LET renderedParam(p) ==
        IF /\ IsInstance(p.typ, "VariadicType")
           /\ Core(ElementTypeOf(p.typ)) = AnyType
        THEN <<"...">>
        ELSE IF IsStrErr(Str(p.typ)) THEN Str(p.typ)
        ELSE IF p.name # NoName THEN <<p.name, ":", WS>> \o Str(p.typ)
        ELSE Str(p.typ)
      rendered == [i \in 1..Len(v.params) |-> renderedParam(v.params[i])]
      failed == \E i \in 1..Len(v.params) : IsStrErr(rendered[i])
      rend == <<"fun", "(">> \o Join(rendered, <<",", WS>>) \o <<")">>
  IN IF failed
     THEN IF \E i \in 1..Len(v.params) : v.params[i].name = "..."
          THEN StrErr("RuntimeError") ELSE StrErr("KeyError")
     ELSE IF v.rets # None
     THEN IF IsStrErr(Str(v.rets)) THEN Str(v.rets)
          ELSE rend \o <<WS, "->", WS>> \o Str(v.rets)
     ELSE rend

Reverse(q) == [i \in 1..Len(q) |-> q[Len(q) + 1 - i]]

\* f"{name}: {typ}" and f"[{name}]: {typ}" of TableType.__str__
NamedPart(name, typ) ==
  IF IsStrErr(typ) THEN typ ELSE <<name, ":", WS>> \o typ
TypedPart(key, typ) ==
  IF IsStrErr(key) THEN key
  ELSE IF IsStrErr(typ) THEN typ
  ELSE <<"[">> \o key \o <<"]", ":", WS>> \o typ
FieldPart(fld) ==
  IF fld[1].k = "name" THEN NamedPart(fld[1].name, Str(fld[2]))
  ELSE TypedPart(Str(fld[1].typ), Str(fld[2]))

KeyedBy(d, kind) ==
  FilterSeq(d, {i \in 1..Len(d) : d[i][1].k = kind}, 1)

\* the fields of TableType.__str__ with the named ones last to first
NamedFirstMutant(d) == Reverse(KeyedBy(d, "name")) \o KeyedBy(d, "type")
\* the order of the fields in TableType.__str__: the named ones, then the typed
NamedFirst(d) == KeyedBy(d, "name") \o KeyedBy(d, "type")

TableBraces(body) ==
  IF IsStrErr(body) THEN body ELSE <<"{", WS>> \o body \o <<WS, "}">>

TableRendered(v, d) ==
  IF \E i \in 1..Len(v.fields) :
       v.fields[i][1].k = "type" /\ HashRaises(v.fields[i][1].typ)
  THEN StrErr("RecursionError")
  ELSE IF Len(d) = 0 THEN (IF v.omitted THEN <<"{", "...", "}">> ELSE <<"{", "}">>)
  ELSE TableBraces(Join([i \in 1..Len(d) |-> FieldPart(d[i])]
                          \o (IF v.omitted THEN <<(<<"...">>)>> ELSE <<>>),
                        <<",", WS>>))

\* TableType.__str__
TableStr(v) == TableRendered(v, NamedFirst(TableDict(v.fields)))

\* OptionalType.__str__
OptionalStr(v) ==
  IF v.cls # "OptionalType" THEN StrErr("RecursionError")
  ELSE IF IsInstance(v.inner, "FunctionType")
  THEN Suffixed(Paren(Str(v.inner)), <<"?">>)
  ELSE Suffixed(Str(v.inner), <<"?">>)

\* ArrayType.__str__
ArrayStr(v) ==
  IF IsInstance(v.element_type, "FunctionType")
  THEN IF IsErr(RetsOf(v.element_type)) THEN StrErr("RecursionError")
       ELSE IF RetsOf(v.element_type) # None
       THEN Suffixed(Paren(Str(v.element_type)), <<"[]">>)
       ELSE Suffixed(Str(v.element_type), <<"[]">>)
  ELSE Suffixed(Str(v.element_type), <<"[]">>)

\* VariadicType.__str__
VariadicStr(v) ==
  IF IsInstance(v.element_type, "FunctionType")
  THEN Suffixed(Paren(Str(v.element_type)), <<WS, "...">>)
  ELSE Suffixed(Str(v.element_type), <<WS, "...">>)

ElementStrs(v) == [i \in 1..Len(v.elements) |-> Str(v.elements[i])]
ListStr(v, sep) ==
  LET body == Join(ElementStrs(v), sep)
  IN IF IsStrErr(body) THEN body
     ELSE <<"(">> \o body \o (IF v.omitted THEN <<"...">> ELSE <<>>) \o <<")">>

\* TupleType.__str__
TupleStr(v) == Paren(Join(ElementStrs(v), <<",">>))
\* UnionType.__str__
UnionStr(v) == ListStr(v, <<"|">>)
\* IntersectionType.__str__
IntersectionStr(v) == ListStr(v, <<WS, "&", WS>>)

\* GenericStructInstanceType.__str__
GenericStr(v) ==
  LET body == Join([i \in 1..Len(v.type_args) |-> Str(v.type_args[i])], <<",">>)
  IN IF IsStrErr(body) THEN body
     ELSE NameTokens(v.name) \o <<"<">> \o body \o <<">">>

\* str(v): the __str__ found first in the method resolution order of v's class
Str(v) ==
  IF IsWrapper(v)
  THEN CASE Owner(v) = "OptionalType" -> OptionalStr(v)
         [] Owner(v) = "ArrayType" -> ArrayStr(v)
         [] OTHER -> VariadicStr(v)
  ELSE CASE v.cls = "PrimitiveType" -> <<v.name>>
         [] v.cls \in {"LiteralStr", "LiteralInt", "LiteralBool"} -> LiteralTokens(v)
         [] v.cls \in GenericClasses -> GenericStr(v)
         [] v.cls \in StructClasses -> NameTokens(v.name)
         [] v.cls = "TupleType" -> TupleStr(v)
         [] v.cls = "UnionType" -> UnionStr(v)
         [] v.cls = "IntersectionType" -> IntersectionStr(v)
         [] v.cls = "TableType" -> TableStr(v)
         [] OTHER -> FunctionStr(v)

(***************************************************************************)
(* The symbol catalog: Index.types, keyed by the dotted name (a tuple of   *)
(* its parts).  Raw type strings are token sequences.                      *)
(***************************************************************************)
Field(n, t) == [type |-> "field", name |-> n, typ |-> t, literal |-> <<>>]
FnParam(n, t) == [name |-> n, typ |-> t, desc |-> NoName]
Described(n, t, d) == [name |-> n, typ |-> t, desc |-> d]
Fn(n, ps, rs) == [type |-> "fn", name |-> n, params |-> ps, returns |-> rs]
Class(bs, gs, ms) ==
  [type |-> "class", bases |-> bs, generics |-> gs, members |-> ms]
Alias(gs, t) == [type |-> "alias", typ |-> t, generics |-> gs, members |-> <<>>]
LuaEnum(gs, t, ms) ==
  [type |-> "enum", typ |-> t, generics |-> gs, members |-> ms]

Catalog ==
  (<<"Base1">> :> Class(<<>>, <<>>,
      <<Field("m", <<"string">>), Field("x", <<"integer">>)>>)) @@
  (<<"Base2">> :> Class(<<>>, <<>>,
      <<Field("m", <<"number">>), Field("y", <<"boolean">>)>>)) @@
  (<<"Mid">> :> Class(<< <<"Base2">> >>, <<>>,
      <<Field("n", <<"nil">>)>>)) @@
  (<<"Derived">> :> Class(<< <<"Base1">>, <<"Base2">> >>, <<>>,
      <<Field("x", <<"string", "?">>)>>)) @@
  (<<"Derived2">> :> Class(<< <<"Base2">>, <<"Base1">> >>, <<>>,
      <<Field("n", <<"any">>)>>)) @@
  (<<"Leaf">> :> Class(<< <<"Mid">>, <<"Base1">> >>, <<>>, <<>>)) @@
  (<<"Foo">> :> Class(<<>>, <<"T">>,
      <<Field("val", <<"T">>)>>)) @@
  (<<"Pair">> :> Class(<<>>, <<"K", "U">>,
      <<Field("a", <<"K">>), Field("b", <<"U">>),
        Field("arr", <<"(", "K", ",", "U", "[]", ")">>),
        Fn("f", <<FnParam("p", <<"K">>), FnParam("q", <<"(", "U", "|", "nil", ")">>)>>,
                <<FnParam("r", <<"U", "?">>)>>)>>)) @@
  (<<"Box">> :> Class(<<>>, <<"T">>,
      <<Field("val", <<"T">>),
        Field("opt", <<"T", "?">>),
        Field("tbl", <<"{", WS, "x", ":", WS, "T", WS, "}">>),
        Field("gen", <<"table", "<", "string", ",", "T", ">">>)>>)) @@
  (<<"Broken">> :> Class(<<>>, <<>>,
      <<Field("a", <<"integer">>), Field("b", <<"(", "string">>)>>)) @@
  (<<"BrokenFn">> :> Class(<<>>, <<>>,
      <<Field("a", <<"integer">>),
        Fn("f", <<FnParam("p", <<"(", "string">>), FnParam("q", <<"string">>)>>,
                <<FnParam("r", <<"fun", "(">>)>>),
        Fn("g", <<FnParam("p", <<"number">>)>>, <<FnParam("r", <<"nil">>)>>)>>)) @@
  (<<"Bar">> :> Alias(<<>>, <<"(", "string", "|", "number", ")">>)) @@
  (<<"Ref">> :> Alias(<<>>, <<"Derived">>)) @@
  (<<"Maybe">> :> Alias(<<"T">>, <<"T", "?">>)) @@
  (<<"Dict">> :> Alias(<<"T">>, <<"{", WS, "[", "string", "]", ":", WS, "T", WS, "}">>)) @@
  (<<"Tup">> :> Alias(<<"T", "U">>, <<"(", "T", ",", "integer", ",", "U", ")">>)) @@
  (<<"Color">> :> LuaEnum(<<>>, <<"(", "1", "|", "2", ")">>,
      <<Field("a", <<"1">>), Field("b", <<"2">>)>>)) @@
  (<<"Flag">> :> LuaEnum(<<"T">>, <<"(", "T", "|", Quote("s"), ")">>,
      <<Field("x", <<"T">>), Field("y", <<Quote("s")>>)>>)) @@
  (<<"Mode">> :> LuaEnum(<<>>, <<"(", "1", "|", Quote("s"), "...", ")">>,
      <<[Field("a", <<"integer">>) EXCEPT !.literal = <<"1">>],
        Fn("f", <<FnParam("p", <<"string">>)>>, <<>>),
        Field("b", <<Quote("s")>>),
        Field("m", <<"Base1", "[]">>)>>)) @@
  (<<"Gen">> :> Class(<< <<"Base1">>, <<"Base2">> >>, <<"T">>,
      <<Field("y", <<"T">>)>>)) @@
  (<<"Child">> :> Class(<< <<"Foo", "<", "U", ">">> >>, <<"U">>,
      <<Field("own", <<"U">>)>>)) @@
  (<<"Kid">> :> Class(<< <<"Foo", "<", "T", ">">> >>, <<"T">>,
      <<Field("own", <<"T">>)>>)) @@
  (<<"Fns">> :> Class(<<>>, <<>>,
      <<Fn("one", <<>>, <<Described("r", <<"string">>, "the one")>>),
        Fn("tup1", <<>>, <<Described("r", <<"(", "string", ")">>, "a tuple")>>),
        Fn("tup2", <<>>,
           <<Described("r", <<"(", "string", ",", "number", ")">>, "a pair")>>),
        Fn("two", <<>>, <<Described("r", <<"string">>, "first"),
                          Described("s", <<"number">>, "second")>>),
        Fn("none", <<FnParam("p", <<"string">>)>>, <<>>),
        Fn("g", <<>>, <<Described("r", <<"nil">>, "nothing")>>)>>)) @@
  (<<"Ring">> :> LuaEnum(<<>>, <<"(", "1", "|", "RingRef", ")">>,
      <<Field("a", <<"1">>), Field("next", <<"RingRef">>)>>)) @@
  (<<"RingRef">> :> Alias(<<>>, <<"Ring", "[]">>)) @@
  (<<"CycA">> :> Class(<< <<"CycB">> >>, <<>>, <<Field("a", <<"integer">>)>>)) @@
  (<<"CycB">> :> Class(<< <<"CycA">> >>, <<>>, <<Field("b", <<"integer">>)>>)) @@
  (<<"Marker">> :> Class(<<>>, <<>>, <<>>)) @@
  (<<"Tagged">> :> Class(<< <<"Marker">> >>, <<>>, <<>>)) @@
  (<<"pkg", "Cls">> :> Class(<<>>, <<>>, <<Field("a", <<"integer">>)>>))

\* TreeHydrator.__init__: index.classes, index.aliases, index.enums
classes == {n \in DOMAIN Catalog : Catalog[n].type = "class"}
aliases == {n \in DOMAIN Catalog : Catalog[n].type = "alias"}
enums == {n \in DOMAIN Catalog : Catalog[n].type = "enum"}

(***************************************************************************)
(* Grammar and parser.  TYPE_GRAMMAR is parsed by an LALR(1) parser that   *)
(* resolves every shift/reduce conflict as a shift; the operators below    *)
(* take the decisions of that parser on a token sequence ts from position  *)
(* i.  The callbacks of TreeHydrator run at each reduction.  f bounds the  *)
(* nesting of parser calls made from inside callbacks.                     *)
(***************************************************************************)
MaxNest == 4

\* %ignore WS
Lex(s) == SelectSeq(s, LAMBDA t : t # WS)
Tok(ts, i) == IF i <= Len(ts) THEN ts[i] ELSE "$END"

Ok(v, j) == [ok |-> TRUE, val |-> v, pos |-> j]
Raise(e) == [ok |-> FALSE, val |-> e, pos |-> 0]
\* UnexpectedToken or UnexpectedCharacters
Unexpected == Raise(Err("UnexpectedToken"))
Reduce(v, j) == IF IsErr(v) THEN Raise(v) ELSE Ok(v, j)

RECURSIVE PType(_, _, _), PPrimary(_, _, _), PSuffixes(_, _, _),
          PBasic(_, _, _), PFunction(_, _, _), PParams(_, _, _, _),
          PParam(_, _, _), PTable(_, _, _), PFields(_, _, _, _),
          PField(_, _, _), PStruct(_, _, _), PNameParts(_, _, _),
          PTypeList(_, _, _, _), PParen(_, _, _), PItems(_, _, _, _, _),
          struct_type(_, _), generic_struct_type(_, _, _), Parse(_, _),
          Members(_, _), substitute_typevars(_, _, _), EnumTyp(_, _, _),
          Call(_, _, _, _)

\* TreeHydrator.optional_type
optional_type(inner) ==
  IF IsInstance(inner, "OptionalType") THEN inner ELSE OptionalType(inner)

\* TreeHydrator.array_type
array_type(element) == ArrayType(element)

\* the attribute elements / omitted of an instance of cls among items
ListAttrRaises(items, cls) ==
  \E i \in 1..Len(items) : IsInstance(items[i], cls) /\ IsErr(Target(items[i]))

\* TreeHydrator.union_type
union_type(items, omitted) ==
  LET isUnion(sub) == IsInstance(sub, "UnionType")
      isOpt(sub) == ~isUnion(sub) /\ IsInstance(sub, "OptionalType")
      contrib(sub) == IF isUnion(sub) THEN Target(sub).elements
                      ELSE IF isOpt(sub) THEN <<InnerOf(sub)>>
                      ELSE <<sub>>
      all_members == JoinFrom([i \in 1..Len(items) |-> contrib(items[i])], <<>>, 1)
      om == omitted \/ \E i \in 1..Len(items) :
                         isUnion(items[i]) /\ Target(items[i]).omitted
      optional == \E i \in 1..Len(items) : isOpt(items[i])
      union == UnionType(all_members, om)
  IN IF Len(items) = 1 THEN items[1]
     ELSE IF \/ ListAttrRaises(items, "UnionType")
             \/ \E i \in 1..Len(items) : isOpt(items[i]) /\ IsErr(InnerOf(items[i]))
     THEN Err("RecursionError")
     ELSE IF optional THEN OptionalType(union) ELSE union

\* TreeHydrator.intersection_type
intersection_type(items, omitted) ==
  LET isInter(sub) == IsInstance(sub, "IntersectionType")
      contrib(sub) == IF isInter(sub) THEN Target(sub).elements ELSE <<sub>>
      all_members == JoinFrom([i \in 1..Len(items) |-> contrib(items[i])], <<>>, 1)
      om == omitted \/ \E i \in 1..Len(items) :
                         isInter(items[i]) /\ Target(items[i]).omitted
  IN IF Len(items) = 1 THEN items[1]
     ELSE IF ListAttrRaises(items, "IntersectionType") THEN Err("RecursionError")
     ELSE IntersectionType(all_members, om)

\* TreeHydrator.table_type; an omission marker is the field <<None, None>>
table_type(items) ==
  LET markers == {i \in 1..Len(items) : items[i][2] = None}
  IN IF markers # {}
     THEN TableType(FilterSeq(items, (1..Len(items)) \ markers, 1), TRUE)
     ELSE TableType(items, FALSE)

\* type: primary_type | variadic_type
VariadicTail(ts, p) ==
  IF ~p.ok THEN p
  ELSE IF Tok(ts, p.pos) = "..." THEN Reduce(VariadicType(p.val), p.pos + 1)
  ELSE p

PType(ts, i, f) ==
  IF Tok(ts, i) = "multi"
  THEN IF Tok(ts, i + 1) = "<" /\ Tok(ts, i + 2) = "..." /\ Tok(ts, i + 3) = ">"
       THEN Ok(VariadicType(UnknownType), i + 4)
       ELSE Unexpected
  ELSE VariadicTail(ts, PPrimary(ts, i, f))

\* suffix_type: (basic_type|suffix_type) "?" | (basic_type|suffix_type) "[]"
PSuffixes(ts, v, i) ==
  IF IsErr(v) THEN Raise(v)
  ELSE IF Tok(ts, i) = "?" THEN PSuffixes(ts, optional_type(v), i + 1)
  ELSE IF Tok(ts, i) = "[]" THEN PSuffixes(ts, array_type(v), i + 1)
  ELSE Ok(v, i)

\* primary_type: basic_type | suffix_type
SuffixTail(ts, b) == IF ~b.ok THEN b ELSE PSuffixes(ts, b.val, b.pos)

PPrimary(ts, i, f) == SuffixTail(ts, PBasic(ts, i, f))

\* basic_type
PBasic(ts, i, f) ==
  LET t == Tok(ts, i)
  IN CASE t \in IntTokens -> Ok(LiteralInt(IntCanon[t]), i + 1)
       [] t \in StrTokens -> Ok(LiteralStr(Unquote(t)), i + 1)
       [] t = "true" -> Ok(LiteralBool("True"), i + 1)
       [] t = "false" -> Ok(LiteralBool("False"), i + 1)
       [] t = "void" -> Ok(NilType, i + 1)
       [] t \in PrimitiveKeywords \ {"void"} -> Ok(PrimitiveType(t), i + 1)
       [] t = "fun" -> PFunction(ts, i, f)
       [] t = "{" -> PTable(ts, i, f)
       [] t \in Identifiers -> PStruct(ts, i, f)
       [] t = "(" -> PParen(ts, i, f)
       [] OTHER -> Unexpected

\* function_ret_type: function_void_type "->" type
FunctionRet(ps, r) ==
  IF ~r.ok THEN r ELSE Ok(FunctionType(ps.val, r.val), r.pos)

\* FunctionTail with the return type read as a basic type only, so that the
\* suffixes after it are left to the function
FunctionTailMutant(ts, ps, f) ==
  IF ~ps.ok THEN ps
  ELSE IF Tok(ts, ps.pos) # ")" THEN Unexpected
  ELSE IF Tok(ts, ps.pos + 1) = "->"
  THEN FunctionRet(ps, PBasic(ts, ps.pos + 2, f))
  ELSE Ok(FunctionType(ps.val, None), ps.pos + 1)

FunctionTail(ts, ps, f) ==
  IF ~ps.ok THEN ps
  ELSE IF Tok(ts, ps.pos) # ")" THEN Unexpected
  ELSE IF Tok(ts, ps.pos + 1) = "->"
  THEN FunctionRet(ps, PType(ts, ps.pos + 2, f))
  ELSE Ok(FunctionType(ps.val, None), ps.pos + 1)

\* function_void_type: "fun" "(" [param_list] ")"
PFunction(ts, i, f) ==
  IF Tok(ts, i + 1) # "(" THEN Unexpected
  ELSE FunctionTail(ts, IF Tok(ts, i + 2) = ")" THEN Ok(<<>>, i + 2)
                        ELSE PParams(ts, <<>>, i + 2, f), f)

\* param_list: param ("," param)*
ParamsTail(ts, acc, p, f) ==
  IF ~p.ok THEN p
  ELSE IF Tok(ts, p.pos) = "," THEN PParams(ts, Append(acc, p.val), p.pos + 1, f)
  ELSE Ok(Append(acc, p.val), p.pos)

PParams(ts, acc, i, f) == ParamsTail(ts, acc, PParam(ts, i, f), f)

\* param: named_param | unnamed_param
ParamTail(name, r) == IF ~r.ok THEN r ELSE Ok(Param(name, r.val), r.pos)

\* PParam with the bare "..." reduced as a named parameter: the token is kept
\* as the parameter's name
PParamMutant(ts, i, f) ==
  IF Tok(ts, i) \in (Identifiers \cup {"self", "..."}) /\ Tok(ts, i + 1) = ":"
  THEN ParamTail(Tok(ts, i), PType(ts, i + 2, f))
  ELSE IF Tok(ts, i) = "..."
  THEN Ok(Param("...", VariadicType(AnyType)), i + 1)
  ELSE ParamTail(NoName, PType(ts, i, f))

PParam(ts, i, f) ==
  IF Tok(ts, i) \in (Identifiers \cup {"self", "..."}) /\ Tok(ts, i + 1) = ":"
  THEN ParamTail(Tok(ts, i), PType(ts, i + 2, f))
  ELSE IF Tok(ts, i) = "..."
  THEN Ok(Param(NoName, VariadicType(AnyType)), i + 1)
  ELSE ParamTail(NoName, PType(ts, i, f))

\* table_type: "{" [_table_field_list] "}"
TableTail(ts, fs) ==
  IF ~fs.ok THEN fs
  ELSE IF Tok(ts, fs.pos) # "}" THEN Unexpected
  ELSE Ok(table_type(fs.val), fs.pos + 1)

PTable(ts, i, f) ==
  IF Tok(ts, i + 1) = "}" THEN Ok(table_type(<<>>), i + 2)
  ELSE TableTail(ts, PFields(ts, <<>>, i + 1, f))

\* _table_field_list: table_field ("," table_field)*
FieldsTail(ts, acc, p, f) ==
  IF ~p.ok THEN p
  ELSE IF Tok(ts, p.pos) = "," THEN PFields(ts, Append(acc, p.val), p.pos + 1, f)
  ELSE Ok(Append(acc, p.val), p.pos)

PFields(ts, acc, i, f) == FieldsTail(ts, acc, PField(ts, i, f), f)

\* table_field: array_named_field | array_typed_field | array_omission
FieldTail(key, r) == IF ~r.ok THEN r ELSE Ok(<<key, r.val>>, r.pos)

TypedFieldTail(ts, k, f) ==
  IF ~k.ok THEN k
  ELSE IF Tok(ts, k.pos) # "]" \/ Tok(ts, k.pos + 1) # ":" THEN Unexpected
  ELSE FieldTail(TypeKey(k.val), PType(ts, k.pos + 2, f))

PField(ts, i, f) ==
  IF Tok(ts, i) \in Identifiers
  THEN IF Tok(ts, i + 1) # ":" THEN Unexpected
       ELSE FieldTail(NameKey(Tok(ts, i)), PType(ts, i + 2, f))
  ELSE IF Tok(ts, i) = "[" THEN TypedFieldTail(ts, PType(ts, i + 1, f), f)
  ELSE IF Tok(ts, i) = "..." THEN Ok(<<None, None>>, i + 1)
  ELSE Unexpected

\* IDENTIFIER ("." IDENTIFIER)*
PNameParts(ts, acc, i) ==
  IF Tok(ts, i) \notin Identifiers THEN Unexpected
  ELSE IF Tok(ts, i + 1) = "."
  THEN PNameParts(ts, Append(acc, Tok(ts, i)), i + 2)
  ELSE Ok(Append(acc, Tok(ts, i)), i + 1)

\* generic_struct_type: struct_type "<" type_list ">"
GenericTail(ts, base, args, f) ==
  IF ~args.ok THEN args
  ELSE IF Tok(ts, args.pos) # ">" THEN Unexpected
  ELSE Reduce(generic_struct_type(base, args.val, f), args.pos + 1)

StructTail(ts, n, base, f) ==
  IF IsErr(base) THEN Raise(base)
  ELSE IF Tok(ts, n.pos) # "<" THEN Ok(base, n.pos)
  ELSE GenericTail(ts, base, PTypeList(ts, <<>>, n.pos + 1, f), f)

NamedStruct(ts, n, f) ==
  IF ~n.ok THEN n ELSE StructTail(ts, n, struct_type(n.val, f), f)

\* struct_type: IDENTIFIER ("." IDENTIFIER)*
PStruct(ts, i, f) == NamedStruct(ts, PNameParts(ts, <<>>, i), f)

\* type_list: type ("," type)*
TypeListTail(ts, acc, p, f) ==
  IF ~p.ok THEN p
  ELSE IF Tok(ts, p.pos) = ","
  THEN PTypeList(ts, Append(acc, p.val), p.pos + 1, f)
  ELSE Ok(Append(acc, p.val), p.pos)

PTypeList(ts, acc, i, f) == TypeListTail(ts, acc, PType(ts, i, f), f)

\* (sep primary_type)+ of a union or an intersection
ItemsTail(ts, acc, p, f, sep) ==
  IF ~p.ok THEN p ELSE PItems(ts, Append(acc, p.val), p.pos, f, sep)

PItems(ts, acc, i, f, sep) ==
  IF Tok(ts, i) # sep THEN Ok(acc, i)
  ELSE ItemsTail(ts, acc, PPrimary(ts, i + 1, f), f, sep)

\* ListTail without the omitted rules: the marker is skipped and the list is
\* reduced as a plain union or intersection
ListTailMutant(ts, l, sep) ==
  LET end == IF Tok(ts, l.pos) = "..." THEN l.pos + 1 ELSE l.pos
  IN IF ~l.ok THEN l
     ELSE IF Tok(ts, end) # ")" THEN Unexpected
     ELSE IF sep = "|" THEN Reduce(union_type(l.val, FALSE), end + 1)
     ELSE Reduce(intersection_type(l.val, FALSE), end + 1)

\* the end of a union or an intersection: ["..."] ")"
ListTail(ts, l, sep) ==
  LET om == Tok(ts, l.pos) = "..."
      end == IF om THEN l.pos + 1 ELSE l.pos
  IN IF ~l.ok THEN l
     ELSE IF Tok(ts, end) # ")" THEN Unexpected
     ELSE IF sep = "|" THEN Reduce(union_type(l.val, om), end + 1)
     ELSE Reduce(intersection_type(l.val, om), end + 1)

\* tuple_type: "(" type_list ")"
TupleTail(ts, l) ==
  IF ~l.ok THEN l
  ELSE IF Tok(ts, l.pos) # ")" THEN Unexpected
  ELSE Ok(TupleType(l.val), l.pos + 1)

TupleRest(ts, first, f) ==
  IF ~first.ok THEN first
  ELSE IF Tok(ts, first.pos) = ","
  THEN TupleTail(ts, PTypeList(ts, <<first.val>>, first.pos + 1, f))
  ELSE TupleTail(ts, Ok(<<first.val>>, first.pos))

\* after "(" primary_type: a union, an intersection or a tuple
ParenTail(ts, p, f) ==
  IF ~p.ok THEN p
  ELSE IF Tok(ts, p.pos) \in {"|", "&"}
  THEN ListTail(ts, PItems(ts, <<p.val>>, p.pos, f, Tok(ts, p.pos)), Tok(ts, p.pos))
  ELSE TupleRest(ts, VariadicTail(ts, p), f)

\* "(" (function_void_type|function_ret_type) ")" "?": in the state after
\* "(" function the parser shifts ")" and then accepts "?" only
ParenFunction(ts, i, fn, f) ==
  IF fn.ok /\ Tok(ts, fn.pos) = ")"
  THEN IF Tok(ts, fn.pos + 1) = "?"
       THEN Reduce(optional_type(fn.val), fn.pos + 2)
       ELSE Unexpected
  ELSE ParenTail(ts, PPrimary(ts, i + 1, f), f)

\* what follows "(": tuple_type, union_type, intersection_type, their
\* omitted forms, and the optional of a parenthesised function
PParen(ts, i, f) ==
  IF Tok(ts, i + 1) = "fun" THEN ParenFunction(ts, i, PFunction(ts, i + 1, f), f)
  ELSE IF Tok(ts, i + 1) = "multi"
  THEN TupleTail(ts, PTypeList(ts, <<>>, i + 1, f))
  ELSE ParenTail(ts, PPrimary(ts, i + 1, f), f)

\* Lark.parse with the TreeHydrator as transformer: the value, or the
\* exception that leaves the call
ParseEnd(ts, r) ==
  IF ~r.ok THEN r.val
  ELSE IF r.pos # Len(ts) + 1 THEN Err("UnexpectedToken")
  ELSE r.val

\* parser.parse(raw) called from a callback or a property
NestedParse(raw, f) == IF f = 0 THEN Err("RecursionError") ELSE Parse(raw, f - 1)

\* AliasType.__post_init__: typ is parsed when the value is built
AliasTyp(n, f) == NestedParse(Catalog[n].typ, f)

\* the value of a class with a delegate, once the delegate is there
WithTyp(cls, full_name, typ) ==
  IF IsErr(typ) THEN typ ELSE [cls |-> cls, name |-> full_name, typ |-> typ]

\* struct_type with the catalog indexed as types[full_name] in place of
\* types.get(full_name): a name that is no key raises
struct_typeMutant(full_name, f) ==
  IF full_name \in classes THEN ClassType(full_name)
  ELSE IF full_name \in aliases
  THEN WithTyp("AliasType", full_name, AliasTyp(full_name, f))
  ELSE IF full_name \in enums
  THEN WithTyp("EnumType", full_name, EnumTyp(full_name, <<>>, f))
  ELSE Err("KeyError")

\* TreeHydrator.struct_type
struct_type(full_name, f) ==
  IF full_name \in classes THEN ClassType(full_name)
  ELSE IF full_name \in aliases
  THEN WithTyp("AliasType", full_name, AliasTyp(full_name, f))
  ELSE IF full_name \in enums
  THEN WithTyp("EnumType", full_name, EnumTyp(full_name, <<>>, f))
  ELSE StructType(full_name)

\* StructType.generics: the names of typedef.generics
Generics(n) == IF n \in DOMAIN Catalog THEN Catalog[n].generics ELSE <<>>

\* GenericStructInstanceType._typevar_ctx: zip(typedef.generics, type_args)
TypevarCtx(n, type_args) ==
  LET g == Generics(n)
      k == IF Len(g) < Len(type_args) THEN Len(g) ELSE Len(type_args)
  IN [name \in {<<g[i]>> : i \in 1..k} |->
        type_args[CHOOSE i \in 1..k :
                    g[i] = name[1] /\ \A j \in (i + 1)..k : g[j] # name[1]]]

\* __post_init__ without its assertion on the number of arguments
ArityOkMutant(n, type_args) == TRUE

\* GenericStructInstanceType.__post_init__
ArityOk(n, type_args) ==
  n \notin DOMAIN Catalog \/ Len(type_args) <= Len(Generics(n))

\* the constructors of the generic instance classes with their __post_init__
NewGenericClassInstance(n, type_args) ==
  IF ~ArityOk(n, type_args) THEN Err("AssertionError")
  ELSE GenericClassInstanceType(n, type_args)

WithSubstitutedTyp(cls, n, type_args, sub) ==
  IF IsErr(sub) THEN sub
  ELSE [cls |-> cls, name |-> n, type_args |-> type_args, typ |-> sub]

InstanceTail(cls, n, type_args, typ, f) ==
  IF IsErr(typ) THEN typ
  ELSE IF ~ArityOk(n, type_args) THEN Err("AssertionError")
  ELSE WithSubstitutedTyp(cls, n, type_args,
         substitute_typevars(typ, TypevarCtx(n, type_args), f))

NewGenericAliasInstance(n, type_args, f) ==
  InstanceTail("GenericAliasInstanceType", n, type_args, AliasTyp(n, f), f)

NewGenericEnumInstance(n, type_args, f) ==
  InstanceTail("GenericEnumInstanceType", n, type_args,
               EnumTyp(n, TypevarCtx(n, type_args), f), f)

\* TreeHydrator.generic_struct_type
generic_struct_type(base, type_args, f) ==
  LET base_generics == Generics(base.name)
      \* the arguments at which the loop would stop, and the first of them
      stops == {i \in 1..Len(type_args) :
                  \/ type_args[i].cls # "StructType"
                  \/ i > Len(base_generics)
                  \/ type_args[i].name # <<base_generics[i]>>}
      first == CHOOSE i \in stops : \A j \in stops : i <= j
  IN IF base.cls = "StructType"
     THEN GenericStructInstanceType(base.name, type_args)
     ELSE IF stops = {} THEN base
     ELSE IF type_args[first].cls = "StructType" /\ first > Len(base_generics)
     THEN Err("IndexError")
     ELSE CASE base.cls = "ClassType" ->
                 NewGenericClassInstance(base.name, type_args)
            [] base.cls = "AliasType" ->
                 NewGenericAliasInstance(base.name, type_args, f)
            [] OTHER -> NewGenericEnumInstance(base.name, type_args, f)

(***************************************************************************)
(* Documented members and the member resolver.  A mapping of members (a    *)
(* Python dict) is a sequence of records with distinct names, in insertion *)
(* order.                                                                  *)
(***************************************************************************)
Dict(items) == [cls |-> "dict", items |-> items]
DocumentedField(n, t) == [cls |-> "DocumentedField", name |-> n, typ |-> t]
DocumentedFunction(n, ps, r) ==
  [cls |-> "DocumentedFunction", name |-> n, params |-> ps, rets |-> r]

\* d[e.name] = e
DictSet(d, e) ==
  IF \E i \in 1..Len(d) : d[i].name = e.name
  THEN [i \in 1..Len(d) |-> IF d[i].name = e.name THEN e ELSE d[i]]
  ELSE Append(d, e)

\* d[e.name] = e for every e of es from the i-th on
RECURSIVE DictUpdate(_, _, _)
DictUpdate(d, es, i) ==
  IF i > Len(es) THEN d ELSE DictUpdate(DictSet(d, es[i]), es, i + 1)

HasErr(vs) == \E i \in 1..Len(vs) : IsErr(vs[i])
FirstErr(vs) ==
  vs[CHOOSE i \in 1..Len(vs) : IsErr(vs[i]) /\ \A j \in 1..(i - 1) : ~IsErr(vs[j])]

\* DocumentedField.from_member
FieldWith(member, inner) ==
  IF IsErr(inner) THEN inner ELSE DocumentedField(member.name, inner)

FieldResolved(member, typevar_ctx, resolved, f) ==
  IF IsErr(resolved) THEN resolved
  ELSE IF DOMAIN typevar_ctx # {}
  THEN FieldWith(member, substitute_typevars(resolved, typevar_ctx, f))
  ELSE DocumentedField(member.name, resolved)

FieldFromMember(member, typevar_ctx, f) ==
  FieldResolved(member, typevar_ctx,
                NestedParse(IF member.literal # <<>> THEN member.literal
                            ELSE member.typ, f), f)

\* param.typ and parser.parse(param.typ) or None, inside the try of from_member
UnknownOnError(resolved) ==
  IF resolved = Err("UnexpectedToken") THEN UnknownType ELSE resolved

TryParse(raw, f) ==
  IF raw = <<>> THEN None ELSE UnknownOnError(NestedParse(raw, f))

TryParseAll(ps, f) == [i \in 1..Len(ps) |-> TryParse(ps[i].typ, f)]

\* DocumentedFunction.from_member
FunctionResolved(member, typevar_ctx, ptyps, rlist, f) ==
  LET params == [i \in 1..Len(member.params) |->
                   Param(member.params[i].name, ptyps[i])]
      rets == IF Len(rlist) = 1
              THEN IF rlist[1] # None /\ Core(rlist[1]) = NilType THEN None
                   ELSE rlist[1]
              ELSE TupleType(rlist)
      result == DocumentedFunction(member.name, params, rets)
  IN IF HasErr(ptyps) THEN FirstErr(ptyps)
     ELSE IF HasErr(rlist) THEN FirstErr(rlist)
     ELSE IF DOMAIN typevar_ctx # {}
     THEN substitute_typevars(result, typevar_ctx, f)
     ELSE result

FunctionFromMember(member, typevar_ctx, f) ==
  FunctionResolved(member, typevar_ctx, TryParseAll(member.params, f),
                   TryParseAll(member.returns, f), f)

\* from_member of the class the raw member belongs to; a member inherited
\* from a base is already resolved
Hydrate(member, typevar_ctx, f) ==
  IF "cls" \in DOMAIN member THEN member
  ELSE IF member.type = "fn" THEN FunctionFromMember(member, typevar_ctx, f)
  ELSE FieldFromMember(member, typevar_ctx, f)

\* a dict comprehension: the dict, or the exception its first failing item raised
DictOrErr(ms) == IF HasErr(ms) THEN FirstErr(ms) ELSE Dict(DictUpdate(<<>>, ms, 1))

HydrateAll(attrs, typevar_ctx, f) ==
  DictOrErr([i \in 1..Len(attrs) |-> Hydrate(attrs[i], typevar_ctx, f)])

\* StructType.members and GenericStructInstanceType.members of a value with
\* a typedef: the dict comprehension over typedef.members
StructMembers(n, typevar_ctx, f) == HydrateAll(Catalog[n].members, typevar_ctx, f)

\* StructType.fields
FieldsOf(ms) == SelectSeq(ms, LAMBDA m : m.cls = "DocumentedField")

\* StructType.fields and StructType.funs, given what self.members answers; funs
\* turns an AttributeError into a RuntimeError
Fields(ms) == IF IsErr(ms) THEN ms ELSE Dict(FieldsOf(ms.items))
Funs(ms) ==
  IF ms = Err("AttributeError") THEN Err("RuntimeError")
  ELSE IF IsErr(ms) THEN ms
  ELSE Dict(SelectSeq(ms.items, LAMBDA m : m.cls = "DocumentedFunction"))

\* EnumType.__post_init__: UnionType([x.typ for x in self.fields.values()])
FieldsUnion(ms) ==
  IF IsErr(ms) THEN ms
  ELSE UnionType([i \in 1..Len(FieldsOf(ms.items)) |-> FieldsOf(ms.items)[i].typ],
                 FALSE)

\* EnumType.__post_init__ taking the delegate from the summary type string
\* of the declaration, as an alias does
EnumTypMutant(n, typevar_ctx, f) == AliasTyp(n, f)

EnumTyp(n, typevar_ctx, f) == FieldsUnion(StructMembers(n, typevar_ctx, f))

\* ClassType.bases, GenericClassInstanceType.bases
SubstBase(b, typevar_ctx, f) ==
  IF IsErr(b) \/ DOMAIN typevar_ctx = {} THEN b
  ELSE substitute_typevars(b, typevar_ctx, f)

BasesOf(n, typevar_ctx, f) ==
  [i \in 1..Len(Catalog[n].bases) |->
     SubstBase(NestedParse(Catalog[n].bases[i], f), typevar_ctx, f)]

\* attrs[name] = member for the members of bms[order[i]], bms[order[i+1]], ...
RECURSIVE MergeOrdered(_, _, _, _)
MergeOrdered(attrs, bms, order, i) ==
  IF i > Len(order) THEN attrs
  ELSE MergeOrdered(IF IsErr(bms[order[i]]) THEN attrs
                    ELSE DictUpdate(attrs, bms[order[i]].items, 1),
                    bms, order, i + 1)

\* the loop over the bases in declaration order
MergeBasesMutant(bms) ==
  MergeOrdered(<<>>, bms, [i \in 1..Len(bms) |-> i], 1)
\* the loop over reversed(self.bases)
MergeBases(bms) ==
  MergeOrdered(<<>>, bms, [i \in 1..Len(bms) |-> Len(bms) + 1 - i], 1)

\* the members loop of ClassType.members; hasattr(base, "members") swallows
\* AttributeError, in ClassType only
Inherit(n, typevar_ctx, generic, bms, f) ==
  LET raised == {i \in 1..Len(bms) :
                   /\ IsErr(bms[i])
                   /\ (generic \/ bms[i] # Err("AttributeError"))}
  IN IF raised # {}
     THEN bms[CHOOSE i \in raised : \A j \in raised : i >= j]
     ELSE HydrateAll(DictUpdate(MergeBases(bms), Catalog[n].members, 1),
                     typevar_ctx, f)

MembersFrom(n, typevar_ctx, generic, bases, f) ==
  IF HasErr(bases) THEN FirstErr(bases)
  ELSE Inherit(n, typevar_ctx, generic,
               [i \in 1..Len(bases) |->
                  IF f = 0 THEN Err("RecursionError") ELSE Members(bases[i], f - 1)],
               f)

\* ClassType.members (generic = FALSE) and GenericClassInstanceType.members
ClassMembers(n, typevar_ctx, generic, f) ==
  MembersFrom(n, typevar_ctx, generic, BasesOf(n, typevar_ctx, f), f)

\* a Python list
List(items) == [cls |-> "list", items |-> items]

\* a list comprehension: the list, or the exception its first failing item raised
ListOrErr(vs) == IF HasErr(vs) THEN FirstErr(vs) ELSE List(vs)

\* FunctionType.is_void
is_void(self) == self.rets = None

\* an entry of the views parameters and returns of a documented function
DocumentedParameter(n, d, t, o) ==
  [cls |-> "DocumentedParameter", name |-> n, desc |-> d, typ |-> t, orig_typ |-> o]

\* DocumentedFunction.returns of the function self hydrated from the raw
\* member typedef: an entry per declared return, typed by the elements of
\* rets when rets is a tuple with as many elements as there are entries, and
\* otherwise the first entry typed by rets; an entry left without a type
\* fails the constructor of DocumentedParameter
Returns(self, typedef) ==
  LET ret == typedef.returns
      entry(i, t) == DocumentedParameter(ret[i].name, ret[i].desc, t, ret[i].typ)
  IN IF self.rets = None THEN List(<<>>)
     ELSE IF self.rets.cls # "TupleType" \/ Len(ret) # Len(self.rets.elements)
     THEN IF ret = <<>> THEN Err("IndexError")
          ELSE IF Len(ret) > 1 THEN Err("TypeError")
          ELSE List(<<entry(1, self.rets)>>)
     ELSE List([i \in 1..Len(ret) |-> entry(i, self.rets.elements[i])])

\* the list ClassType.bases and GenericClassInstanceType.bases compute
ClassBases(self, f) ==
  ListOrErr(BasesOf(self.name,
                    IF self.cls = "ClassType" THEN <<>>
                    ELSE TypevarCtx(self.name, self.type_args), f))

\* StructType._filter_typevars: the type arguments
FilterTypevars(n, typevars) ==
  [i \in 1..Len(Generics(n)) |->
     IF <<Generics(n)[i]>> \in DOMAIN typevars
     THEN typevars[<<Generics(n)[i]>>]
     ELSE StructType(<<Generics(n)[i]>>)]

SubstAll(vs, typevars, f) ==
  [i \in 1..Len(vs) |-> substitute_typevars(vs[i], typevars, f)]

\* substitute_typevars of the wrappers: the method of the owner class
WrapperSubst(v, wrapped) ==
  CASE Owner(v) = "OptionalType" ->
         IF v.cls # "OptionalType" THEN Err("RecursionError")
         ELSE OptionalType(wrapped)
    [] Owner(v) = "ArrayType" -> ArrayType(wrapped)
    [] OTHER -> VariadicType(wrapped)

\* UnionType / IntersectionType / TupleType .substitute_typevars
ElementsSubst(v, elements) ==
  IF HasErr(elements) THEN FirstErr(elements)
  ELSE [v EXCEPT !.elements = elements]

\* FunctionType.substitute_typevars
FunctionSubst(v, ptyps, rets) ==
  IF HasErr(ptyps) THEN FirstErr(ptyps)
  ELSE IF IsErr(rets) THEN rets
  ELSE [v EXCEPT !.params = [i \in 1..Len(v.params) |->
                               Param(v.params[i].name, ptyps[i])],
                 !.rets = rets]

\* TableType.substitute_typevars: the name field in its body is the function
\* dataclasses.field, and field[0] raises
TableSubst(v, typevars) == Err("TypeError")

\* GenericStructInstanceType.substitute_typevars
GenericSubst(v, typevars) == v

\* StructType.substitute_typevars
StructSubst(v, typevars) ==
  IF v.cls = "StructType" /\ v.name \in DOMAIN typevars
  THEN typevars[v.name]
  ELSE v

\* ClassType.substitute_typevars, AliasType.substitute_typevars
DeclSubst(v, typevars, f) ==
  IF Len(Generics(v.name)) = 0 THEN v
  ELSE IF \A i \in 1..Len(Generics(v.name)) :
            <<Generics(v.name)[i]>> \notin DOMAIN typevars
  THEN v
  ELSE IF v.cls = "ClassType"
  THEN NewGenericClassInstance(v.name, FilterTypevars(v.name, typevars))
  ELSE NewGenericAliasInstance(v.name, FilterTypevars(v.name, typevars), f)

\* the method v.substitute_typevars(typevars) resolves to
SubstituteIn(v, typevars, f) ==
  IF IsErr(v) THEN v
  ELSE IF v.cls = "None" THEN Err("AttributeError")
  ELSE IF IsWrapper(v)
  THEN WrapperSubst(v, substitute_typevars(Wrapped(v), typevars, f))
  ELSE CASE v.cls \in GenericClasses -> GenericSubst(v, typevars)
         [] v.cls \in {"ClassType", "AliasType"} -> DeclSubst(v, typevars, f)
         [] v.cls \in {"StructType", "EnumType"} -> StructSubst(v, typevars)
         [] v.cls \in {"TupleType", "UnionType", "IntersectionType"} ->
              ElementsSubst(v, SubstAll(v.elements, typevars, f))
         [] v.cls = "TableType" -> TableSubst(v, typevars)
         [] v.cls \in {"FunctionType", "DocumentedFunction"} ->
              FunctionSubst(v,
                SubstAll([i \in 1..Len(v.params) |-> v.params[i].typ], typevars, f),
                IF v.rets = None THEN None
                ELSE substitute_typevars(v.rets, typevars, f))
         [] OTHER -> v

\* IntersectionType.members: res |= el.members, AttributeError skipped
RECURSIVE MergeMembers(_, _, _)
MergeMembers(res, ms, i) ==
  IF i > Len(ms) THEN res
  ELSE MergeMembers(IF IsErr(ms[i]) THEN res ELSE DictUpdate(res, ms[i].items, 1),
                    ms, i + 1)

IntersectionMembers(ms) ==
  LET raised == {i \in 1..Len(ms) : IsErr(ms[i]) /\ ms[i] # Err("AttributeError")}
  IN IF raised # {}
     THEN ms[CHOOSE i \in raised : \A j \in raised : i <= j]
     ELSE Dict(MergeMembers(<<>>, ms, 1))

\* self.typ.members, without the default of getattr
DelegateMembersMutant(ms) == ms

\* getattr(self.typ, "members", {})
DelegateMembers(ms) == IF ms = Err("AttributeError") THEN Dict(<<>>) ELSE ms

\* the property v.members resolves to
MembersOf(v, f) ==
  IF IsErr(v) THEN v
  ELSE IF IsWrapper(v) THEN Members(Target(v), f)
  ELSE CASE v.cls \in {"StructType", "GenericStructInstanceType"} -> Dict(<<>>)
         [] v.cls = "ClassType" -> ClassMembers(v.name, <<>>, FALSE, f)
         [] v.cls = "GenericClassInstanceType" ->
              ClassMembers(v.name, TypevarCtx(v.name, v.type_args), TRUE, f)
         [] v.cls = "AliasType" -> DelegateMembers(Members(v.typ, f))
         [] v.cls = "EnumType" -> StructMembers(v.name, <<>>, f)
         [] v.cls \in {"GenericAliasInstanceType", "GenericEnumInstanceType"} ->
              StructMembers(v.name, TypevarCtx(v.name, v.type_args), f)
         [] v.cls = "IntersectionType" ->
              IntersectionMembers(
                [i \in 1..Len(v.elements) |-> Members(v.elements[i], f)])
         [] OTHER -> Err("AttributeError")

\* A call from one part of the program into another: the parser runs the
\* hydrator's callbacks, and the values the callbacks build call the parser
\* and one another's methods and properties.
Call(method, self, arg, f) ==
  CASE method = "parse" -> ParseEnd(Lex(self), PType(Lex(self), 1, f))
    [] method = "substitute_typevars" -> SubstituteIn(self, arg, f)
    [] method = "bases" -> ClassBases(self, f)
    [] OTHER -> MembersOf(self, f)

\* parser.parse(s)
Parse(s, f) == Call("parse", s, <<>>, f)

\* v.substitute_typevars(typevars)
substitute_typevars(v, typevars, f) == Call("substitute_typevars", v, typevars, f)

\* v.members
Members(v, f) == Call("members", v, <<>>, f)

\* v.bases of a class
BasesList(v, f) == Call("bases", v, <<>>, f)

(***************************************************************************)
(* Inputs: the type strings handed to the parser, and the typevar maps     *)
(* handed to substitute_typevars.                                          *)
(***************************************************************************)
MaxSuffix == 3

\* chains of at most k suffixes "?" and "[]"
RECURSIVE SuffixChains(_)
SuffixChains(k) ==
  IF k = 0 THEN {<<>>}
  ELSE SuffixChains(k - 1) \cup
       {c \o <<t>> : c \in SuffixChains(k - 1), t \in {"?", "[]"}}

AtomStrings ==
  {<<"string">>, <<"nil">>, <<"void">>, <<"any">>, <<"unknown">>, <<"integer">>,
   <<"T">>, <<"U">>, <<"a">>, <<"Foo">>, <<"Base1">>, <<"Derived">>,
   <<"Derived2">>, <<"Leaf">>, <<"Mid">>, <<"Broken">>, <<"BrokenFn">>,
   <<"Bar">>, <<"Ref">>, <<"Maybe">>, <<"Color">>, <<"Mode">>,
   <<"Marker">>, <<"Tagged">>, <<"Flag">>, <<"Fns">>, <<"pkg", ".", "Cls">>,
   <<"1">>, <<"01">>, <<"-0">>, <<Quote("s")>>, <<"true">>, <<"false">>,
   <<"fun", "(", ")">>, <<"fun", "(", ")", WS, "->", WS, "a">>,
   <<"(", "fun", "(", ")", ")", "?">>,
   <<"(", "fun", "(", ")", WS, "->", WS, "a", ")", "?">>,
   <<"{", "}">>, <<"(", "a", "|", "b", ")">>, <<"(", "a", ",", "b", ")">>,
   <<"multi", "<", "...", ">">>}

SuffixedAtoms == {a \o c : a \in AtomStrings, c \in SuffixChains(MaxSuffix)}

\* the operands of the composite forms
Operands ==
  {<<"string">>, <<"nil">>, <<"T">>, <<"U">>, <<"a">>, <<"b">>, <<"1">>,
   <<"string", "?">>, <<"a", "[]">>, <<"a", "?", "[]">>, <<"T", "?">>,
   <<"Foo">>, <<"fun", "(", ")">>,
   <<"(", "a", "|", "b", ")">>, <<"(", "a", "|", "b", "...", ")">>,
   <<"(", "a", "|", "b", ")", "[]">>, <<"(", "a", "|", "b", ")", "?">>,
   <<"(", "a", WS, "&", WS, "b", ")">>,
   <<"(", "a", WS, "&", WS, "b", "...", ")">>,
   <<"(", "a", WS, "&", WS, "b", ")", "[]">>,
   <<"(", "a", ",", "b", ")">>, <<"{", WS, "x", ":", WS, "a", WS, "}">>,
   <<"Other", "<", "a", ">">>}

Unary(x) ==
  {<<"(">> \o x \o <<")">>,
   <<"{", WS, "x", ":", WS>> \o x \o <<WS, "}">>,
   <<"{", WS, "[">> \o x \o <<"]", ":", WS, "a", WS, "}">>,
   <<"{", WS, "x", ":", WS>> \o x \o <<",", WS, "...", WS, "}">>,
   <<"fun", "(">> \o x \o <<")">>,
   <<"fun", "(", "p", ":", WS>> \o x \o <<")">>,
   <<"fun", "(", "p", ":", WS>> \o x \o <<",", WS, "...", ")">>,
   <<"fun", "(">> \o x \o <<",", WS, "...", ")">>,
   <<"fun", "(", ")", WS, "->", WS>> \o x,
   x \o <<WS, "...">>, x \o <<"...">>,
   <<"Foo", "<">> \o x \o <<">">>, <<"Box", "<">> \o x \o <<">">>,
   <<"Pair", "<">> \o x \o <<">">>, <<"Maybe", "<">> \o x \o <<">">>,
   <<"Dict", "<">> \o x \o <<">">>, <<"Flag", "<">> \o x \o <<">">>,
   <<"Bar", "<">> \o x \o <<">">>, <<"Other", "<">> \o x \o <<">">>,
   <<"Gen", "<">> \o x \o <<">">>, <<"Base1", "<">> \o x \o <<">">>,
   <<"Color", "<">> \o x \o <<">">>, <<"Child", "<">> \o x \o <<">">>,
   <<"Kid", "<">> \o x \o <<">">>}

Binary(x, y) ==
  {<<"(">> \o x \o <<"|">> \o y \o <<")">>,
   <<"(">> \o x \o <<"|">> \o y \o <<"...", ")">>,
   <<"(">> \o x \o <<WS, "&", WS>> \o y \o <<")">>,
   <<"(">> \o x \o <<WS, "&", WS>> \o y \o <<WS, "...", ")">>,
   <<"(">> \o x \o <<",">> \o y \o <<")">>,
   <<"(">> \o x \o <<",">> \o y \o <<WS, "...", ")">>,
   <<"{", WS, "[">> \o x \o <<"]", ":", WS>> \o y \o <<",", WS, "x", ":", WS, "a", WS, "}">>,
   <<"{", WS, "x", ":", WS>> \o x \o <<",", WS, "x", ":", WS>> \o y \o <<WS, "}">>,
   <<"{", WS, "y", ":", WS>> \o x \o <<",", WS, "x", ":", WS>> \o y \o <<WS, "}">>,
   <<"fun", "(", "p", ":", WS>> \o x \o <<")", WS, "->", WS>> \o y,
   <<"fun", "(">> \o x \o <<",", WS, "q", ":", WS>> \o y \o <<")">>,
   <<"Pair", "<">> \o x \o <<",">> \o y \o <<">">>,
   <<"Tup", "<">> \o x \o <<",">> \o y \o <<">">>,
   <<"Foo", "<">> \o x \o <<",">> \o y \o <<">">>,
   <<"Other", "<">> \o x \o <<",">> \o y \o <<">">>}

UnaryStrings == UNION {Unary(x) : x \in Operands}
BinaryStrings == UNION {Binary(x, y) : x \in Operands, y \in Operands}

\* composite forms under a suffix
SuffixedComposites ==
  {u \o c : u \in UNION {Unary(x) \cup Binary(x, <<"b">>) : x \in {<<"a">>, <<"T">>}},
            c \in SuffixChains(MaxSuffix - 1)}

\* dotted names beside the keys of the catalog
NameStrings ==
  {<<"pkg">>, <<"Cls">>, <<"Other">>, <<"pkg", ".", "Other">>,
   <<"pkg", ".", "Cls", ".", "x">>, <<"Cls", ".", "pkg">>}

\* function types written out in full
FunctionStrings ==
  {<<"fun", "(", "a", ":", WS, "integer", ")", WS, "->", WS, "integer", "[]", "?">>,
   <<"(", "fun", "(", "a", ":", WS, "integer", ")", WS, "->", WS, "integer", ")", "?">>,
   <<"fun", "(", "a", ":", WS, "integer", ")", "[]">>,
   <<"(", "fun", "(", ")", WS, "->", WS, "a", "?", ")", "?">>}

\* a union or an intersection of x and y that ends in "...", written with
\* the whitespace ws before the marker
Marked(x, sep, y, ws) == <<"(">> \o x \o sep \o y \o ws \o <<"...", ")">>

MarkerStrings ==
  {Marked(x, sep, y, ws) :
     x \in {<<"a">>, <<"string", "?">>},
     sep \in {<<"|">>, <<WS, "&", WS>>},
     y \in {<<"b">>, <<"a", "[]">>, <<"(", "a", "|", "b", ")">>},
     ws \in {<<>>, <<WS>>}}

\* texts that name the declarations with a cycle: two classes that inherit
\* from each other, and an enum and an alias that mention each other
CyclicStrings ==
  {<<"CycA">>, <<"CycB", "?">>, <<"CycA", "[]">>,
   <<"Ring", "?">>, <<"Ring", "[]">>, <<"(", "Ring", "|", "a", ")">>,
   <<"RingRef", "[]">>, <<"fun", "(", ")", WS, "->", WS, "Ring">>,
   <<"Foo", "<", "Ring", ">">>}

Inputs ==
  SuffixedAtoms \cup UnaryStrings \cup BinaryStrings \cup SuffixedComposites
    \cup NameStrings \cup FunctionStrings \cup MarkerStrings \cup CyclicStrings

\* the strings of the second parser call of a comparison
Seconds == {<<"string">>, <<"string", "?">>, <<"nil">>, <<"Foo">>}

\* the typevar maps
Bindings ==
  {(<<"T">> :> StringType),
   (<<"T">> :> OptionalType(StringType)),
   (<<"T">> :> ArrayType(StructType(<<"a">>))) @@ (<<"U">> :> IntegerType),
   (<<"T">> :> UnionType(<<StructType(<<"a">>), StructType(<<"b">>)>>, TRUE)) @@
     (<<"U">> :> IntersectionType(<<StructType(<<"a">>), StructType(<<"b">>)>>,
                                  FALSE))}

(***************************************************************************)
(* The state machine: a client takes a type string, parses it, and asks    *)
(* one thing of the value it got.                                          *)
(***************************************************************************)
VARIABLES ts, pc, x, text, y, text2, ts2, other, eq, typevars, sub, members,
          bases, _members, _bases, accessed, computed

\* The environment of the template renderer: the stack of section titles,
\* the anchor prefix, the table of contents (toc, with its dicts kept by
\* identity in dicts), whether the prefix was initialized, the open calls of
\* _render_section, and the section that has just ended
VARIABLES section_stack, anchor_prefix, toc, dicts, prefix_initialized, frames,
          last

client == <<ts, pc, x, text, y, text2, ts2, other, eq, typevars, sub, members,
            bases, _members, _bases, accessed, computed>>

rendering == <<section_stack, anchor_prefix, toc, dicts, prefix_initialized,
               frames, last>>

vars == <<client, rendering>>

\* the state of the two memoized views of the value that answers the queries
\* on x: the results of the latest accesses, the attributes _members and
\* _bases, and how many times each view was accessed and computed
views == <<members, bases, _members, _bases, accessed, computed>>

Unset == [cls |-> "Unset"]

\* the accesses of each view by one client
MaxAccess == 2

\* not v, for v None, a dict or a list
Falsy(v) == v = None \/ v.items = <<>>

(***************************************************************************)
(* Section rendering (render.py).  A template is rendered against one      *)
(* environment; every {% section %} tag calls DocExtension._render_section *)
(* with the body of the tag as caller().  The call is split where it hands *)
(* control to the body: the body may open further sections, end, or raise. *)
(* Strings are sequences of characters.                                    *)
(***************************************************************************)
\* the letters and digits among the characters of the strings
WordChars == {"A", "b", "a"}
Titles == {<<"A", " ", "b">>, <<"_">>}
ProjectNames == {<<>>, <<"A">>}

\* the values a tag passes as anchor: true, false or a string
PyBool(b) == [cls |-> "bool", value |-> b]
PyStr(s) == [cls |-> "str", value |-> s]
AnchorArgs == {PyBool(TRUE), PyBool(FALSE), PyStr(<<"b">>)}
Truthy(v) == IF v.cls = "bool" THEN v.value ELSE v.value # <<>>

\* re.sub(r"[\W_]+", "-", text): every maximal run of characters that are
\* not letters or digits becomes one "-"
RECURSIVE Dashed(_, _)
Dashed(str, i) ==
  IF i > Len(str) THEN <<>>
  ELSE IF str[i] \in WordChars THEN <<str[i]>> \o Dashed(str, i + 1)
  ELSE IF i > 1 /\ str[i - 1] \notin WordChars THEN Dashed(str, i + 1)
  ELSE <<"-">> \o Dashed(str, i + 1)

\* str.lower()
Lower(str) == [i \in 1..Len(str) |-> IF str[i] = "A" THEN "a" ELSE str[i]]

\* str.strip("-")
RECURSIVE Strip(_)
Strip(str) ==
  IF str = <<>> THEN str
  ELSE IF Head(str) = "-" THEN Strip(Tail(str))
  ELSE IF str[Len(str)] = "-" THEN Strip(SubSeq(str, 1, Len(str) - 1))
  ELSE str

slugify(str) == Strip(Lower(Dashed(str, 1)))

resolve_anchor(anchor, prefix, literal) ==
  IF ~Truthy(anchor) THEN <<>>
  ELSE IF prefix = <<>> \/ literal THEN anchor.value
  ELSE prefix \o <<"-">> \o anchor.value

\* the dicts of the table of contents made in one run, the root included,
\* and the sections open at once
MaxDicts == 4
MaxDepth == 3

\* no section has just ended
NoSection == [outcome |-> "none"]

\* DocExtension.__init__: toc["index"] is the empty dict 1 and toc["cur"] is
\* that dict; section_stack = [], anchor_prefix = ""
Constructed ==
  /\ dicts = <<[items |-> <<>>, __a__ |-> None]>>
  /\ toc = [index |-> 1, glossary |-> <<>>, cur |-> 1]
  /\ section_stack = <<>>
  /\ anchor_prefix = <<>>
  /\ prefix_initialized = FALSE
  /\ frames = <<>>
  /\ last = NoSection

Init ==
  /\ ts \in Inputs
  /\ pc = "start"
  /\ x = Unset
  /\ text = <<>>
  /\ y = Unset
  /\ text2 = <<>>
  /\ ts2 = <<>>
  /\ other = Unset
  /\ eq = FALSE
  /\ typevars = <<>>
  /\ sub = Unset
  /\ members = Unset
  /\ bases = Unset
  /\ _members = None
  /\ _bases = None
  /\ accessed = [members |-> 0, bases |-> 0]
  /\ computed = [members |-> 0, bases |-> 0]
  /\ Constructed

\* x = parser.parse(ts); EnumType.__post_init__ reads self.fields, which reads
\* self.members and so fills _members while the value is built
ParseInput ==
  /\ pc = "start"
  /\ x' = Parse(ts, MaxNest)
  /\ pc' = "parsed"
  /\ LET built == /\ ~IsErr(x')
                  /\ Target(x').cls \in {"EnumType", "GenericEnumInstanceType"}
     IN /\ _members' = IF built THEN Members(x', MaxNest) ELSE None
        /\ computed' = [computed EXCEPT !.members = IF built THEN 1 ELSE 0]
  /\ UNCHANGED <<ts, text, y, text2, ts2, other, eq, typevars, sub, members,
                 bases, _bases, accessed>>
  /\ UNCHANGED rendering

\* text = str(x)
Stringify ==
  /\ pc = "parsed"
  /\ ~IsErr(x)
  /\ text' = Str(x)
  /\ pc' = "rendered"
  /\ UNCHANGED <<ts, x, y, text2, ts2, other, eq, typevars, sub, views>>
  /\ UNCHANGED rendering

\* y = parser.parse(text)
Reparse ==
  /\ pc = "rendered"
  /\ ~IsStrErr(text)
  /\ y' = Parse(text, MaxNest)
  /\ pc' = "reparsed"
  /\ UNCHANGED <<ts, x, text, text2, ts2, other, eq, typevars, sub, views>>
  /\ UNCHANGED rendering

\* text2 = str(y)
Restringify ==
  /\ pc = "reparsed"
  /\ ~IsErr(y)
  /\ text2' = Str(y)
  /\ pc' = "rerendered"
  /\ UNCHANGED <<ts, x, text, y, ts2, other, eq, typevars, sub, views>>
  /\ UNCHANGED rendering

\* other = parser.parse(ts2); eq = (x == other)
ParseAgain ==
  /\ pc = "parsed"
  /\ ~IsErr(x)
  /\ \E s \in {ts} \cup Seconds :
       /\ ~IsErr(Parse(s, MaxNest))
       /\ ts2' = s
       /\ other' = Parse(s, MaxNest)
       /\ eq' = PyEq(x, other')
  /\ pc' = "compared"
  /\ UNCHANGED <<ts, x, text, y, text2, typevars, sub, views>>
  /\ UNCHANGED rendering

\* sub = x.substitute_typevars(typevars)
Substitute ==
  /\ pc = "parsed"
  /\ ~IsErr(x)
  /\ \E b \in Bindings :
       /\ typevars' = b
       /\ sub' = substitute_typevars(x, b, MaxNest)
  /\ pc' = "substituted"
  /\ UNCHANGED <<ts, x, text, y, text2, ts2, other, eq, views>>
  /\ UNCHANGED rendering

\* the members property of the value self that answers for x: it answers
\* from _members when that is truthy, and otherwise computes the mapping and
\* keeps it; a value without typedef, or of a class without the attribute,
\* keeps nothing; the members of a class read self.bases on the way
ReadMembers(self, computed_members, computed_bases) ==
  LET kept == self.cls \in {"ClassType", "AliasType", "EnumType",
                            "GenericClassInstanceType",
                            "GenericAliasInstanceType",
                            "GenericEnumInstanceType"}
      hit == kept /\ ~Falsy(_members)
      reads_bases == /\ ~hit
                     /\ self.cls \in {"ClassType", "GenericClassInstanceType"}
                     /\ Falsy(_bases)
  IN /\ members' = IF hit THEN _members ELSE computed_members
     /\ _members' = IF kept /\ ~hit /\ ~IsErr(computed_members)
                    THEN computed_members
                    ELSE _members
     /\ _bases' = IF reads_bases /\ ~IsErr(computed_bases) THEN computed_bases
                  ELSE _bases
     /\ computed' =
          [members |-> computed.members + IF kept /\ ~hit THEN 1 ELSE 0,
           bases |-> computed.bases + IF reads_bases THEN 1 ELSE 0]

\* members = x.members
QueryMembers ==
  /\ pc \in {"parsed", "based", "queried"}
  /\ ~IsErr(x)
  /\ accessed.members < MaxAccess
  /\ ReadMembers(Target(x), Members(x, MaxNest), BasesList(Target(x), MaxNest))
  /\ accessed' = [accessed EXCEPT !.members = @ + 1]
  /\ pc' = "queried"
  /\ UNCHANGED <<ts, x, text, y, text2, ts2, other, eq, typevars, sub, bases>>
  /\ UNCHANGED rendering

\* bases = x.bases, asked of a class: the property answers from _bases when
\* that is truthy, and otherwise parses the raw bases and keeps the list
QueryBases ==
  /\ pc \in {"parsed", "based", "queried"}
  /\ ~IsErr(x)
  /\ Target(x).cls \in {"ClassType", "GenericClassInstanceType"}
  /\ accessed.bases < MaxAccess
  /\ bases' = IF ~Falsy(_bases) THEN _bases ELSE BasesList(Target(x), MaxNest)
  /\ _bases' = IF Falsy(_bases) /\ ~IsErr(bases') THEN bases' ELSE _bases
  /\ computed' = [computed EXCEPT !.bases = @ + IF Falsy(_bases) THEN 1 ELSE 0]
  /\ accessed' = [accessed EXCEPT !.bases = @ + 1]
  /\ pc' = IF pc = "parsed" THEN "based" ELSE pc
  /\ UNCHANGED <<ts, x, text, y, text2, ts2, other, eq, typevars, sub, members,
                 _members>>
  /\ UNCHANGED rendering

Next ==
  \/ ParseInput
  \/ Stringify
  \/ Reparse
  \/ Restringify
  \/ ParseAgain
  \/ Substitute
  \/ QueryMembers
  \/ QueryBases

Spec == Init /\ [][Next]_vars

\* DocExtension.preprocess, _initialize_prefix: the first template that is
\* parsed sets the anchor prefix to the project name
Preprocess ==
  /\ ~prefix_initialized
  /\ \E project_name \in ProjectNames : anchor_prefix' = project_name
  /\ prefix_initialized' = TRUE
  /\ UNCHANGED <<section_stack, toc, dicts, frames, last>>
  /\ UNCHANGED client

\* _render_section up to content = caller(): the locals of the call are kept
\* in its frame; node is the dict made for the section, entered what the
\* call found in the environment
EnterSection ==
  /\ prefix_initialized
  /\ Len(dicts) < MaxDicts
  /\ Len(frames) < MaxDepth
  /\ \E title \in Titles, anchor \in AnchorArgs, literal \in BOOLEAN :
       LET prefix == anchor_prefix
           prev_cur == toc.cur
           node == Len(dicts) + 1
           slug == IF anchor = PyBool(TRUE) THEN PyStr(slugify(title)) ELSE anchor
           resolved == resolve_anchor(slug, prefix, literal)
       IN /\ dicts' = Append([dicts EXCEPT ![prev_cur].items = (title :> node) @@ @],
                             [items |-> <<>>, __a__ |-> resolved])
          /\ toc' = [toc EXCEPT !.cur = node, !.glossary = (title :> node) @@ @]
          /\ section_stack' = Append(section_stack, title)
          /\ anchor_prefix' = resolved
          /\ frames' = Append(frames,
               [title |-> title, prefix |-> prefix, prev_cur |-> prev_cur,
                anchor |-> resolved, level |-> Len(section_stack) + 1,
                node |-> node,
                entered |-> <<section_stack, toc.cur, anchor_prefix>>])
  /\ last' = NoSection
  /\ UNCHANGED <<prefix_initialized, client>>

\* _render_section after caller() has returned: stack.pop(), toc["cur"] =
\* prev_cur, anchor_prefix = prefix
LeaveSection ==
  /\ frames # <<>>
  /\ LET frame == frames[Len(frames)]
     IN /\ section_stack' = SubSeq(section_stack, 1, Len(section_stack) - 1)
        /\ toc' = [toc EXCEPT !.cur = frame.prev_cur]
        /\ anchor_prefix' = frame.prefix
        /\ last' = [outcome |-> "completed", entered |-> frame.entered]
  /\ frames' = SubSeq(frames, 1, Len(frames) - 1)
  /\ UNCHANGED <<dicts, prefix_initialized, client>>

\* caller() raises: the exception leaves every open call of _render_section
\* at its call of caller(), and none of them has a handler
BodyRaises ==
  /\ frames # <<>>
  /\ frames' = <<>>
  /\ last' = [outcome |-> "failed", entered |-> frames[Len(frames)].entered]
  /\ UNCHANGED <<section_stack, anchor_prefix, toc, dicts, prefix_initialized,
                 client>>

InitRender == Init /\ ts = <<"nil">>

NextRender ==
  \/ Preprocess
  \/ EnterSection
  \/ LeaveSection
  \/ BodyRaises

SpecRender == InitRender /\ [][NextRender]_vars

(***************************************************************************)
(* Properties                                                              *)
(***************************************************************************)

\* C1: parse after stringify.  For every value x the parser returns,
\* parse(str(x)) succeeds and is structurally equal to x.
C1_ParseAfterStr == pc = "reparsed" => (~IsErr(y) /\ y = x)

\* a variadic of a function renders as "(fun()) ...", which the grammar rejects
C1_RenderingRejected ==
  /\ pc = "reparsed"
  /\ ts = <<"fun", "(", ")", WS, "...">>
  /\ text = <<"(", "fun", "(", ")", ")", WS, "...">>
  /\ y = Err("UnexpectedToken")

\* C2 as stated: for every accepted type string ts, str(parse(ts)) equals ts,
\* or equals ts once the spaces are removed from both.
C2_StrAfterParse == pc = "rendered" => (text = ts \/ Lex(text) = Lex(ts))

\* C2 amended: a rendering is reproduced.  For every accepted ts, with
\* s = str(parse(ts)): whenever the parser accepts s, str(parse(s)) equals s.
C2_StrFixpoint == pc = "rerendered" => text2 = text

\* a table whose named fields are not in alphabetical order is reproduced
C2_Witness ==
  /\ pc = "rerendered"
  /\ ts = <<"{", WS, "y", ":", WS, "a", ",", WS, "x", ":", WS, "b", WS, "}">>
  /\ text = ts
  /\ text2 = text

\* C3: two values from two parser calls compare equal if and only if their
\* tags and contents are equal, wrappers included.
C3_StructuralEquality == pc = "compared" => (eq <=> x = other)

\* "string?" parsed twice gives two optionals that do not compare equal
C3_OptionalsUnequal ==
  /\ pc = "compared"
  /\ ts = <<"string", "?">>
  /\ ts2 = ts
  /\ x = other
  /\ ~eq

\* the names a member mapping holds, and the member it holds under a name
C4_Names(d) == {d.items[i].name : i \in 1..Len(d.items)}
C4_Member(d, name) ==
  d.items[CHOOSE i \in 1..Len(d.items) : d.items[i].name = name]

\* the names a class declares itself, and the member mappings of the bases
\* of x: the parsed base strings, under the bindings of x when x is a generic
\* instance
C4_Own(n) == {Catalog[n].members[i].name : i \in 1..Len(Catalog[n].members)}
C4_BaseMembers(n) ==
  [i \in 1..Len(Catalog[n].bases) |->
     Members(IF x.cls = "ClassType" THEN Parse(Catalog[n].bases[i], MaxNest)
             ELSE substitute_typevars(Parse(Catalog[n].bases[i], MaxNest),
                                      TypevarCtx(n, x.type_args), MaxNest),
             MaxNest)]

\* the members of a class are the names it declares and those of its bases,
\* and a name the class declares has the type the class declares for it
C4_OwnWins(n) ==
  /\ C4_Names(members) =
       C4_Own(n) \cup UNION {C4_Names(C4_BaseMembers(n)[i]) :
                               i \in 1..Len(Catalog[n].bases)}
  /\ \A i \in 1..Len(Catalog[n].members) :
       Catalog[n].members[i].type = "field" =>
         C4_Member(members, Catalog[n].members[i].name).typ =
           IF x.cls = "ClassType" THEN Parse(Catalog[n].members[i].typ, MaxNest)
           ELSE substitute_typevars(Parse(Catalog[n].members[i].typ, MaxNest),
                                    TypevarCtx(n, x.type_args), MaxNest)

\* C4 as stated: the member of a name the class does not declare is the one
\* of the LAST base in declaration order that provides the name.
C4_LastBaseWins ==
  (/\ pc = "queried"
   /\ x.cls \in {"ClassType", "GenericClassInstanceType"}
   /\ ~IsErr(members)) =>
    /\ C4_OwnWins(x.name)
    /\ \A i \in 1..Len(Catalog[x.name].bases) :
         \A name \in C4_Names(C4_BaseMembers(x.name)[i]) \ C4_Own(x.name) :
           (\A c \in (i + 1)..Len(Catalog[x.name].bases) :
              name \notin C4_Names(C4_BaseMembers(x.name)[c]))
           => C4_Member(members, name) = C4_Member(C4_BaseMembers(x.name)[i], name)

\* C4 amended: the member of a name the class does not declare is the one of
\* the FIRST base in declaration order that provides the name; the class's
\* own declaration wins over every base.
C4_FirstBaseWins ==
  (/\ pc = "queried"
   /\ x.cls \in {"ClassType", "GenericClassInstanceType"}
   /\ ~IsErr(members)) =>
    /\ C4_OwnWins(x.name)
    /\ \A i \in 1..Len(Catalog[x.name].bases) :
         \A name \in C4_Names(C4_BaseMembers(x.name)[i]) \ C4_Own(x.name) :
           (\A c \in 1..(i - 1) :
              name \notin C4_Names(C4_BaseMembers(x.name)[c]))
           => C4_Member(members, name) = C4_Member(C4_BaseMembers(x.name)[i], name)

\* Derived(Base1, Base2): both bases declare m, Derived has Base1's
C4_Witness ==
  /\ pc = "queried"
  /\ x = ClassType(<<"Derived">>)
  /\ ~IsErr(members)
  /\ C4_Member(C4_BaseMembers(x.name)[1], "m").typ = StringType
  /\ C4_Member(C4_BaseMembers(x.name)[2], "m").typ = NumberType
  /\ C4_Member(members, "m").typ = StringType
  /\ C4_Member(members, "x").typ = OptionalType(StringType)

\* what the claim expects of a raw type string: its parsed type, or the
\* Unknown primitive when it does not parse
C5_Expected(raw) ==
  IF Parse(raw, MaxNest) = Err("UnexpectedToken") THEN UnknownType
  ELSE Parse(raw, MaxNest)

\* C5: when the raw type of one member fails to parse, the members query
\* still returns the full mapping, with the Unknown primitive for the failing
\* type only; no parse error escapes the query.
C5_FailureIsolation ==
  (pc = "queried" /\ x.cls \in {"ClassType", "EnumType"}) =>
    /\ members # Err("UnexpectedToken")
    /\ ~IsErr(members) =>
         \A i \in 1..Len(Catalog[x.name].members) :
           LET raw == Catalog[x.name].members[i]
               got == C4_Member(members, raw.name)
           IN IF raw.type = "field" THEN got.typ = C5_Expected(raw.typ)
              ELSE \A j \in 1..Len(raw.params) :
                     got.params[j].typ = C5_Expected(raw.params[j].typ)

\* class Broken has the field b: "(string"; its members query raises
C5_FieldErrorEscapes ==
  /\ pc = "queried"
  /\ x = ClassType(<<"Broken">>)
  /\ Catalog[x.name].members[2].typ = <<"(", "string">>
  /\ members = Err("UnexpectedToken")

\* What substitution is expected to return: v with every unresolved struct
\* reference in a child position replaced by the type bound to its name.
RECURSIVE C7_Replaced(_, _)
C7_ReplacedAll(vs, b) == [i \in 1..Len(vs) |-> C7_Replaced(vs[i], b)]
C7_ReplacedKey(k, b) ==
  IF k.k = "type" THEN TypeKey(C7_Replaced(k.typ, b)) ELSE k
C7_Replaced(v, b) ==
  CASE v.cls = "StructType" -> IF v.name \in DOMAIN b THEN b[v.name] ELSE v
    [] v.cls \in {"ArrayType", "VariadicType"} ->
         [v EXCEPT !.element_type = C7_Replaced(v.element_type, b)]
    [] v.cls = "OptionalType" -> [v EXCEPT !.inner = C7_Replaced(v.inner, b)]
    [] v.cls \in {"TupleType", "UnionType", "IntersectionType"} ->
         [v EXCEPT !.elements = C7_ReplacedAll(v.elements, b)]
    [] v.cls = "TableType" ->
         [v EXCEPT !.fields = [i \in 1..Len(v.fields) |->
                                 <<C7_ReplacedKey(v.fields[i][1], b),
                                   C7_Replaced(v.fields[i][2], b)>>]]
    [] v.cls = "FunctionType" ->
         [v EXCEPT !.params = [i \in 1..Len(v.params) |->
                                 Param(v.params[i].name,
                                       C7_Replaced(v.params[i].typ, b))],
                   !.rets = C7_Replaced(v.rets, b)]
    [] v.cls = "GenericStructInstanceType" ->
         [v EXCEPT !.type_args = C7_ReplacedAll(v.type_args, b)]
    [] OTHER -> v

\* C6: the members of an instantiation Base<a1..am> of a class with generics
\* g1..gn, m <= n, resolve with gi replaced by ai for i <= m, and the
\* occurrences of g(m+1)..gn stay unresolved struct references.
C6_MembersByPosition ==
  (/\ pc = "queried"
   /\ x.cls = "GenericClassInstanceType"
   /\ Len(x.type_args) <= Len(Generics(x.name))) =>
    /\ ~IsErr(members)
    /\ \A i \in 1..Len(Catalog[x.name].members) :
         LET raw == Catalog[x.name].members[i]
             got == C4_Member(members, raw.name)
             ctx == TypevarCtx(x.name, x.type_args)
         IN IF raw.type = "field"
            THEN got.typ = C7_Replaced(Parse(raw.typ, MaxNest), ctx)
            ELSE \A j \in 1..Len(raw.params) :
                   got.params[j].typ =
                     C7_Replaced(Parse(raw.params[j].typ, MaxNest), ctx)

\* Box<string>: the field tbl: "{ x: T }" makes the members query raise
C6_TableMemberRaises ==
  /\ pc = "queried"
  /\ ts = <<"Box", "<", "string", ">">>
  /\ x = GenericClassInstanceType(<<"Box">>, <<StringType>>)
  /\ members = Err("TypeError")

\* a value built only of the kinds C7 names: primitives, literals, unresolved
\* struct references and the composite kinds over them
RECURSIVE C7_Covered(_)
C7_CoveredAll(vs) == \A i \in 1..Len(vs) : C7_Covered(vs[i])
C7_Covered(v) ==
  CASE v.cls \in {"None", "PrimitiveType", "StructType",
                  "LiteralStr", "LiteralInt", "LiteralBool"} -> TRUE
    [] v.cls \in {"ArrayType", "VariadicType"} -> C7_Covered(v.element_type)
    [] v.cls = "OptionalType" -> C7_Covered(v.inner)
    [] v.cls \in {"TupleType", "UnionType", "IntersectionType"} ->
         C7_CoveredAll(v.elements)
    [] v.cls = "TableType" ->
         \A i \in 1..Len(v.fields) :
           /\ v.fields[i][1].k = "type" => C7_Covered(v.fields[i][1].typ)
           /\ C7_Covered(v.fields[i][2])
    [] v.cls = "FunctionType" ->
         /\ \A i \in 1..Len(v.params) : C7_Covered(v.params[i].typ)
         /\ C7_Covered(v.rets)
    [] v.cls = "GenericStructInstanceType" -> C7_CoveredAll(v.type_args)
    [] OTHER -> FALSE

\* C7: substitute returns, without raising, a value of the same shape in
\* which every unresolved struct reference in a child position whose name is
\* bound is replaced by the bound type; primitives and literals are unchanged.
C7_SubstituteRecurses ==
  (pc = "substituted" /\ C7_Covered(x)) => sub = C7_Replaced(x, typevars)

\* { x: T } with T bound to string: substitute raises TypeError
C7_TableRaises ==
  /\ pc = "substituted"
  /\ ts = <<"{", WS, "x", ":", WS, "T", WS, "}">>
  /\ typevars = (<<"T">> :> StringType)
  /\ sub = Err("TypeError")

\* v holds an Optional whose inner value is itself an Optional
RECURSIVE C8_Nested(_)
C8_NestedAny(vs) == \E i \in 1..Len(vs) : C8_Nested(vs[i])
C8_Nested(v) ==
  CASE v.cls = "OptionalType" -> v.inner.cls = "OptionalType" \/ C8_Nested(v.inner)
    [] v.cls \in {"ArrayType", "VariadicType"} -> C8_Nested(v.element_type)
    [] v.cls \in {"TupleType", "UnionType", "IntersectionType"} ->
         C8_NestedAny(v.elements)
    [] v.cls = "TableType" ->
         \E i \in 1..Len(v.fields) :
           \/ v.fields[i][1].k = "type" /\ C8_Nested(v.fields[i][1].typ)
           \/ C8_Nested(v.fields[i][2])
    [] v.cls = "FunctionType" ->
         \/ \E i \in 1..Len(v.params) : C8_Nested(v.params[i].typ)
         \/ C8_Nested(v.rets)
    [] v.cls \in GenericClasses -> C8_NestedAny(v.type_args)
    [] OTHER -> FALSE

\* C8: Optional(Optional(x)) equals Optional(x): no value produced by parsing
\* or by substitute holds an Optional of an Optional, and the optional of a
\* typevar bound to an optional type is that optional type.
C8_OptionalIdempotent ==
  /\ (pc # "start" /\ ~IsErr(x)) => ~C8_Nested(x)
  /\ pc = "substituted" =>
       /\ ~IsErr(sub) => ~C8_Nested(sub)
       /\ (/\ x.cls = "OptionalType"
           /\ x.inner.cls = "StructType"
           /\ x.inner.name \in DOMAIN typevars
           /\ typevars[x.inner.name].cls = "OptionalType")
          => sub = typevars[x.inner.name]

\* "T?" with T bound to "string?": substitute raises TypeError
C8_OptionalOfOptionalRaises ==
  /\ pc = "substituted"
  /\ ts = <<"T", "?">>
  /\ typevars = (<<"T">> :> OptionalType(StringType))
  /\ sub = Err("TypeError")

\* the elements an item contributes to a list of the given kind, and the
\* omitted flag it brings: its own when it is a list of that kind
C9_Elements(item, kind) == IF item.cls = kind THEN item.elements ELSE <<item>>
C9_Omitted(item, kind) == item.cls = kind /\ item.omitted

\* the text of a two-item union or intersection with or without the marker
C9_Text(p, q, kind, marked) ==
  CASE kind = "UnionType" /\ ~marked -> <<"(">> \o p \o <<"|">> \o q \o <<")">>
    [] kind = "UnionType" /\ marked ->
         <<"(">> \o p \o <<"|">> \o q \o <<"...", ")">>
    [] kind = "IntersectionType" /\ ~marked ->
         <<"(">> \o p \o <<WS, "&", WS>> \o q \o <<")">>
    [] OTHER -> <<"(">> \o p \o <<WS, "&", WS>> \o q \o <<WS, "...", ")">>

\* C9: a parenthesised union whose items include unions is one Union whose
\* elements are the items' elements concatenated in source order, and whose
\* omitted flag is the OR of the trailing marker and the nested unions'
\* flags; the same holds for intersections.  (Items that are optional are
\* left out: they are hoisted, which is another rule.)
C9_Flattening ==
  pc = "parsed" =>
    \A p \in Operands, q \in Operands, marked \in BOOLEAN,
       kind \in {"UnionType", "IntersectionType"} :
      ts = C9_Text(p, q, kind, marked) =>
        LET first == Parse(p, MaxNest)
            second == Parse(q, MaxNest)
        IN (/\ ~IsErr(first) /\ ~IsErr(second)
            /\ ~IsInstance(first, "OptionalType")
            /\ ~IsInstance(second, "OptionalType")) =>
             x = [cls |-> kind,
                  elements |-> C9_Elements(first, kind) \o C9_Elements(second, kind),
                  omitted |-> \/ marked
                              \/ C9_Omitted(first, kind)
                              \/ C9_Omitted(second, kind)]

\* "((a|b)|(a|b)[])": the array of a union is flattened like a union
C9_ArrayOfUnionFlattened ==
  /\ pc = "parsed"
  /\ ts = <<"(", "(", "a", "|", "b", ")", "|", "(", "a", "|", "b", ")", "[]", ")">>
  /\ x = UnionType(<<StructType(<<"a">>), StructType(<<"b">>),
                     StructType(<<"a">>), StructType(<<"b">>)>>, FALSE)

\* the names written before "<" in the inputs, and the flavour of generic
\* instance each kind of declaration gets
C10_Bases ==
  {<<"Foo">>, <<"Box">>, <<"Pair">>, <<"Gen">>, <<"Maybe">>, <<"Dict">>,
   <<"Tup">>, <<"Flag">>, <<"Other">>}
C10_Flavour(base) ==
  CASE base \in classes -> "GenericClassInstanceType"
    [] base \in aliases -> "GenericAliasInstanceType"
    [] OTHER -> "GenericEnumInstanceType"

\* what the claim expects of Base<args>
C10_Decided(base, args) ==
  IF base \notin DOMAIN Catalog
  THEN x = GenericStructInstanceType(base, args)
  ELSE IF Len(args) > Len(Generics(base)) THEN TRUE
  ELSE IF \A i \in 1..Len(args) :
            args[i] = StructType(<<Generics(base)[i]>>)
  THEN x = Parse(base, MaxNest)
  ELSE /\ ~IsErr(x)
       /\ x.cls = C10_Flavour(base)
       /\ x.name = base
       /\ x.type_args = args

\* C10: Base<a1..am> with Base unresolved is a GenericInstance carrying
\* a1..am; with Base a declaration with generics g1..gn (m <= n) it is the
\* bare base if and only if every ai is an unresolved struct reference named
\* gi, and otherwise a GenericInstance of the base's flavour carrying a1..am.
C10_GenericDecision ==
  pc = "parsed" =>
    \A base \in C10_Bases, p \in Operands :
      /\ (ts = base \o <<"<">> \o p \o <<">">> /\ ~IsErr(Parse(p, MaxNest)))
           => C10_Decided(base, <<Parse(p, MaxNest)>>)
      /\ \A q \in Operands :
           (/\ ts = base \o <<"<">> \o p \o <<",">> \o q \o <<">">>
            /\ ~IsErr(Parse(p, MaxNest))
            /\ ~IsErr(Parse(q, MaxNest)))
           => C10_Decided(base, <<Parse(p, MaxNest), Parse(q, MaxNest)>>)

\* "Dict<string>" with alias Dict<T> = { [string]: T }: the parser raises
C10_AliasInstanceRaises ==
  /\ pc = "parsed"
  /\ ts = <<"Dict", "<", "string", ">">>
  /\ Catalog[<<"Dict">>].generics = <<"T">>
  /\ x = Err("TypeError")

\* the declarations without generics that the inputs instantiate
C11_Bases == {<<"Bar">>, <<"Base1">>, <<"Color">>}

\* C11: parsing Base<args>, with Base a declaration of the catalog whose
\* generics list is empty, returns the bare base value: no generic instance
\* and no error.
C11_NoOpInstantiation ==
  pc = "parsed" =>
    \A base \in C11_Bases, p \in Operands :
      (/\ Generics(base) = <<>>
       /\ ts = base \o <<"<">> \o p \o <<">">>
       /\ ~IsErr(Parse(p, MaxNest)))
        => x = Parse(base, MaxNest)

\* "Base1<string>" with class Base1 declaring no generics: the assert of
\* __post_init__ fails
C11_InstantiationRaises ==
  /\ pc = "parsed"
  /\ ts = <<"Base1", "<", "string", ">">>
  /\ Generics(<<"Base1">>) = <<>>
  /\ x = Err("AssertionError")

\* every value inside v, v included
RECURSIVE C12_Parts(_)
C12_PartsOfAll(vs) == UNION {C12_Parts(vs[i]) : i \in 1..Len(vs)}
C12_Parts(v) ==
  {v} \cup
  (IF IsWrapper(v) THEN C12_Parts(Wrapped(v))
   ELSE CASE v.cls \in {"GenericAliasInstanceType", "GenericEnumInstanceType"} ->
               C12_PartsOfAll(v.type_args) \cup C12_Parts(v.typ)
          [] v.cls \in GenericClasses -> C12_PartsOfAll(v.type_args)
          [] v.cls \in {"AliasType", "EnumType"} -> C12_Parts(v.typ)
          [] v.cls \in {"TupleType", "UnionType", "IntersectionType"} ->
               C12_PartsOfAll(v.elements)
          [] v.cls = "TableType" ->
               UNION {C12_Parts(v.fields[i][2]) \cup
                      (IF v.fields[i][1].k = "type"
                       THEN C12_Parts(v.fields[i][1].typ) ELSE {}) :
                      i \in 1..Len(v.fields)}
          [] v.cls \in {"FunctionType", "DocumentedFunction"} ->
               C12_Parts(v.rets) \cup
               UNION {C12_Parts(v.params[i].typ) : i \in 1..Len(v.params)}
          [] v.cls = "DocumentedField" -> C12_Parts(v.typ)
          [] v.cls = "dict" -> C12_PartsOfAll(v.items)
          [] OTHER -> {})

\* a generic instance of a declaration respects the declaration's arity, and
\* its substitution context binds parameter i to argument i
C12_WellFormed(v) ==
  (v.cls \in GenericClasses /\ v.name \in DOMAIN Catalog) =>
    /\ Len(v.type_args) <= Len(Generics(v.name))
    /\ DOMAIN TypevarCtx(v.name, v.type_args) =
         {<<Generics(v.name)[i]>> : i \in 1..Len(v.type_args)}
    /\ \A i \in 1..Len(v.type_args) :
         TypevarCtx(v.name, v.type_args)[<<Generics(v.name)[i]>>] = v.type_args[i]

\* the declarations the inputs instantiate
C12_Bases ==
  {<<"Foo">>, <<"Box">>, <<"Pair">>, <<"Gen">>, <<"Maybe">>, <<"Dict">>,
   <<"Tup">>, <<"Flag">>, <<"Bar">>, <<"Base1">>, <<"Color">>}

\* C12: every generic instance of a declaration, wherever it occurs in a
\* value the program produced, has at most as many arguments as the
\* declaration has generic parameters and binds the i-th parameter to the
\* i-th argument; parsing Base<args> with more arguments than parameters ends
\* in an error.
C12_AritySafety ==
  /\ \A v \in {x, y, other, sub, members} :
       \A part \in C12_Parts(v) : C12_WellFormed(part)
  /\ pc = "parsed" =>
       \A base \in C12_Bases, p \in Operands :
         /\ (ts = base \o <<"<">> \o p \o <<">">> /\ Len(Generics(base)) < 1)
              => IsErr(x)
         /\ \A q \in Operands :
              (/\ ts = base \o <<"<">> \o p \o <<",">> \o q \o <<">">>
               /\ Len(Generics(base)) < 2)
              => IsErr(x)

\* "Foo<string,a>" with class Foo<T>: two arguments for one parameter, rejected
C12_Rejected ==
  /\ pc = "parsed"
  /\ ts = <<"Foo", "<", "string", ",", "a", ">">>
  /\ Len(Generics(<<"Foo">>)) = 1
  /\ x = Err("AssertionError")

\* the dotted names among the inputs: the token sequence and the name it spells
C13_Names ==
  {<<"T">>, <<"U">>, <<"a">>, <<"pkg">>, <<"Cls">>, <<"Other">>,
   <<"pkg", "Other">>, <<"pkg", "Cls", "x">>, <<"Cls", "pkg">>} \cup DOMAIN Catalog
C13_Text(n) ==
  [i \in 1..(2 * Len(n) - 1) |-> IF i % 2 = 1 THEN n[(i + 1) \div 2] ELSE "."]
C13_Kind(n) ==
  CASE Catalog[n].type = "class" -> "ClassType"
    [] Catalog[n].type = "alias" -> "AliasType"
    [] OTHER -> "EnumType"

\* C13: a dotted name that is no key of the catalog parses, without error, to
\* the unresolved struct of that name, whose members, fields and funs are
\* empty; a name that is a key parses to the class, alias or enum value of
\* that name, as the declaration's type says.
C13_UnresolvedIsTerminal ==
  \A n \in C13_Names :
    (ts = C13_Text(n) /\ pc # "start") =>
      IF n \in DOMAIN Catalog
      THEN ~IsErr(x) /\ x.cls = C13_Kind(n) /\ x.name = n
      ELSE /\ x = StructType(n)
           /\ pc = "queried" =>
                /\ members = Dict(<<>>)
                /\ Fields(members) = Dict(<<>>)
                /\ Funs(members) = Dict(<<>>)

\* "pkg.Other" beside the key pkg.Cls: unresolved, with no members
C13_Witness ==
  /\ pc = "queried"
  /\ ts = <<"pkg", ".", "Other">>
  /\ <<"pkg", "Cls">> \in DOMAIN Catalog
  /\ x = StructType(<<"pkg", "Other">>)
  /\ members = Dict(<<>>)

\* C14: a query on a stack of Optional / Array / Variadic wrappers, other
\* than the wrappers' own identity properties, is answered by the value under
\* all the wrappers: the members of the wrapper are the members of that value.
C14_WrapperTransparency ==
  (pc = "queried" /\ IsWrapper(x)) =>
    /\ Target(x) = Core(x)
    /\ members = Members(Core(x), MaxNest)

\* "Foo[]?[]", the array of an optional array of class Foo: the members
\* query does not reach Foo
C14_QueryNeverAnswers ==
  /\ pc = "queried"
  /\ ts = <<"Foo", "[]", "?", "[]">>
  /\ Core(x) = ClassType(<<"Foo">>)
  /\ ~IsErr(Members(Core(x), MaxNest))
  /\ members = Err("RecursionError")

\* C15: the value parse returns for an alias of the catalog carries as its
\* delegate the parse of the alias's underlying type string; its members are
\* the delegate's members, and empty when the delegate has no members
\* attribute; its text is the alias name.
C15_AliasDelegation ==
  \A n \in aliases :
    (ts = n /\ pc # "start") =>
      /\ ~IsErr(x)
      /\ x.cls = "AliasType"
      /\ x.typ = Parse(Catalog[n].typ, MaxNest)
      /\ pc = "queried" =>
           members = IF Members(x.typ, MaxNest) = Err("AttributeError")
                     THEN Dict(<<>>)
                     ELSE Members(x.typ, MaxNest)
      /\ pc = "rendered" => text = n

\* alias Ref = "Derived": the members of Ref are those of class Derived
C15_Witness ==
  /\ pc = "queried"
  /\ ts = <<"Ref">>
  /\ x = AliasType(<<"Ref">>, ClassType(<<"Derived">>))
  /\ members = Members(ClassType(<<"Derived">>), MaxNest)
  /\ members.cls = "dict"
  /\ Len(members.items) = 3

\* the function texts of the inputs, with their parameters and return type
C16_Heads ==
  {[text |-> <<"fun", "(", ")">>, params |-> <<>>, ret |-> <<"a">>],
   [text |-> <<"fun", "(", "a", ":", WS, "integer", ")">>,
    params |-> <<Param("a", IntegerType)>>, ret |-> <<"integer">>]}
C16_Arrow(h) == h.text \o <<WS, "->", WS>> \o h.ret

\* C16: suffixes written directly after fun(P) -> T belong to the return
\* type T; a "?" after the parenthesised (fun(P) -> T) makes the optional of
\* the function and leaves its return type T alone; "[]" after the void
\* function fun(P) makes the array of the function.
C16_SuffixBinding ==
  pc = "parsed" =>
    \A h \in C16_Heads, c \in SuffixChains(MaxSuffix) :
      /\ ts = C16_Arrow(h) \o c =>
           x = FunctionType(h.params, Parse(h.ret \o c, MaxNest))
      /\ ts = <<"(">> \o C16_Arrow(h) \o <<")", "?">> \o c =>
           /\ IsInstance(x, "OptionalType")
           /\ Core(x) = FunctionType(h.params, Parse(h.ret, MaxNest))
           /\ c = <<>> => x = OptionalType(Core(x))
      /\ ts = h.text \o <<"[]">> =>
           x = ArrayType(FunctionType(h.params, None))

\* the example "fun(a: integer) -> integer[]?"
C16_Witness ==
  /\ pc = "parsed"
  /\ ts = <<"fun", "(", "a", ":", WS, "integer", ")", WS, "->", WS,
            "integer", "[]", "?">>
  /\ x = FunctionType(<<Param("a", IntegerType)>>,
                      OptionalType(ArrayType(IntegerType)))

\* the raw type string a field member resolves from
C17_Raw(m) == IF m.literal # <<>> THEN m.literal ELSE m.typ
C17_FieldMembers(n) == SelectSeq(Catalog[n].members, LAMBDA m : m.type = "field")

\* C17: the delegate of the value parse returns for an enum of the catalog is
\* a union whose elements are the resolved types of the enum's field members,
\* in declaration order, whatever the summary type string of the enum says.
C17_EnumValueType ==
  \A n \in enums :
    (ts = n /\ pc # "start") =>
      /\ ~IsErr(x)
      /\ x.cls = "EnumType"
      /\ x.typ = UnionType([i \in 1..Len(C17_FieldMembers(n)) |->
                              Parse(C17_Raw(C17_FieldMembers(n)[i]), MaxNest)],
                           FALSE)

\* enum Mode with the truncated summary ("1"|"s"...) and the members a, f, b, m
C17_Witness ==
  /\ pc = "parsed"
  /\ ts = <<"Mode">>
  /\ Catalog[<<"Mode">>].typ = <<"(", "1", "|", Quote("s"), "...", ")">>
  /\ Parse(Catalog[<<"Mode">>].typ, MaxNest) # x.typ
  /\ x.typ = UnionType(<<LiteralInt("1"), LiteralStr("s"),
                         ArrayType(ClassType(<<"Base1">>))>>, FALSE)

\* C18: parsing the same qualified name twice gives two struct values that
\* compare equal, of the same class and with the same name, whether the name
\* is that of a class, an alias, an enum or of nothing in the catalog.
C18_DeterministicResolution ==
  (/\ pc = "compared"
   /\ ts2 = ts
   /\ x.cls \in {"StructType", "ClassType", "AliasType", "EnumType"}) =>
    /\ eq
    /\ other.cls = x.cls
    /\ other.name = x.name

\* the alias Bar parsed twice
C18_Witness ==
  /\ pc = "compared"
  /\ ts = <<"Bar">>
  /\ ts2 = ts
  /\ x.cls = "AliasType"
  /\ other.cls = "AliasType"
  /\ eq

\* a union directly inside a union, or an intersection directly inside an
\* intersection
C20_Nested(v) ==
  /\ v.cls \in {"UnionType", "IntersectionType"}
  /\ \E i \in 1..Len(v.elements) : v.elements[i].cls = v.cls

\* C20: in no value that parse or substitute_typevars produced does a union
\* have a union as a direct element, or an intersection an intersection.
C20_NoNestedLists ==
  \A v \in {x, y, other, sub} : \A part \in C12_Parts(v) : ~C20_Nested(part)

\* (T|a) with T := (a|b...): the substituted union holds the union
C20_SubstitutedUnionNested ==
  /\ pc = "substituted"
  /\ ts = <<"(", "T", "|", "a", ")">>
  /\ typevars[<<"T">>] = UnionType(<<StructType(<<"a">>), StructType(<<"b">>)>>, TRUE)
  /\ sub = UnionType(<<typevars[<<"T">>], StructType(<<"a">>)>>, FALSE)

\* C19: whatever a view of a struct or generic instance value answered, an
\* empty mapping or an empty list included, the view was computed on the
\* first access only, and every access, in whatever order, answers what the
\* first computation would answer.
C19_MemoizedViews ==
  /\ (accessed.members >= 1 /\ ~IsErr(members)) =>
       /\ computed.members <= 1
       /\ members = Members(x, MaxNest)
  /\ (accessed.bases >= 1 /\ ~IsErr(bases)) =>
       /\ computed.bases <= 1
       /\ bases = BasesList(Target(x), MaxNest)

\* the alias Bar = "(string|number)", whose members are the empty mapping:
\* the second access computes them again
C19_EmptyResultRecomputed ==
  /\ ts = <<"Bar">>
  /\ accessed.members = 2
  /\ members = Dict(<<>>)
  /\ _members = Dict(<<>>)
  /\ computed.members = 2

\* the generic classes of the catalog whose base list names the class's own
\* generic parameter, and the member they inherit through it
C21_Children == {<<"Child">>, <<"Kid">>}

\* C21: the members a generic instance of a class inherits see the instance's
\* bindings: when the base list of the class mentions the class's own generic
\* parameter, the inherited member val of the instance has the bound argument
\* as its type, exactly as the own member declared with the parameter has.
C21_InheritedBindings ==
  (/\ pc = "queried"
   /\ x.cls = "GenericClassInstanceType"
   /\ x.name \in C21_Children
   /\ ~IsErr(members)) =>
    /\ C4_Names(members) = {"val", "own"}
    /\ C4_Member(members, "own").typ = x.type_args[1]
    /\ C4_Member(members, "val").typ = x.type_args[1]

\* "Child<string>", class Child<U> with base Foo<U>: the inherited member val
\* keeps the unbound name U as its type, the own member is bound to string
C21_InheritedUnbound ==
  /\ pc = "queried"
  /\ ts = <<"Child", "<", "string", ">">>
  /\ x = GenericClassInstanceType(<<"Child">>, <<StringType>>)
  /\ Catalog[<<"Child">>].bases = << <<"Foo", "<", "U", ">">> >>
  /\ C4_Member(members, "own").typ = StringType
  /\ C4_Member(members, "val").typ = StructType(<<"U">>)

\* the operands and separators of the marked lists among the inputs
C22_Firsts == {<<"a">>, <<"string", "?">>}
C22_Seconds == {<<"b">>, <<"a", "[]">>, <<"(", "a", "|", "b", ")">>}
C22_Seps == {<<"|">>, <<WS, "&", WS>>}

\* the list value under an optional, and whether one of its elements is a
\* variadic
C22_HasVariadic(v) ==
  \E i \in 1..Len(Core(v).elements) : IsInstance(Core(v).elements[i], "VariadicType")

\* C22 as stated: in a parenthesised union or intersection a trailing "..."
\* with no whitespace before it is the omission marker (omitted is true and no
\* element is a variadic), while "..." after whitespace is a variadic marker
\* on the preceding type; the two spellings do not produce the same value.
C22_SpellingsDistinguished ==
  pc = "parsed" =>
    \A p \in C22_Firsts, sep \in C22_Seps, q \in C22_Seconds :
      /\ ts = Marked(p, sep, q, <<>>) =>
           /\ ~IsErr(x)
           /\ Core(x).omitted
           /\ ~C22_HasVariadic(x)
      /\ ts = Marked(p, sep, q, <<WS>>) =>
           /\ ~IsErr(x)
           /\ x # Parse(Marked(p, sep, q, <<>>), MaxNest)
           /\ C22_HasVariadic(x)

\* C22 amended: in a parenthesised union or intersection a trailing "..." is
\* the omission marker whether or not whitespace precedes it: both spellings
\* parse to the same value, a list with omitted true and no variadic element.
C22_MarkerIsOmission ==
  pc = "parsed" =>
    \A p \in C22_Firsts, sep \in C22_Seps, q \in C22_Seconds, ws \in {<<>>, <<WS>>} :
      ts = Marked(p, sep, q, ws) =>
        /\ ~IsErr(x)
        /\ Core(x).cls = IF sep = <<"|">> THEN "UnionType" ELSE "IntersectionType"
        /\ Core(x).omitted
        /\ ~C22_HasVariadic(x)
        /\ x = Parse(Marked(p, sep, q, <<>>), MaxNest)

\* "(a|b ...)" with whitespace before the marker: the union of a and b with
\* omitted set, the value of "(a|b...)"
C22_Witness ==
  /\ pc = "parsed"
  /\ ts = <<"(", "a", "|", "b", WS, "...", ")">>
  /\ x = UnionType(<<StructType(<<"a">>), StructType(<<"b">>)>>, TRUE)
  /\ x = Parse(<<"(", "a", "|", "b", "...", ")">>, MaxNest)

\* the text "fun(X, ...)" of an operand X, and the function it stands for
C23_Text(p) == <<"fun", "(">> \o p \o <<",", WS, "...", ")">>
C23_Function(first) ==
  FunctionType(<<Param(NoName, first), Param(NoName, VariadicType(AnyType))>>, None)

\* C23: a parameter that is the bare token "..." hydrates to the unnamed
\* parameter (None, Variadic(Any)); the function renders that parameter back
\* as "...", so that "fun(X, ...)" renders as "fun(" str(X) ", ...)" and the
\* rendering parses to the same function whenever X itself round-trips.
C23_BareVariadic ==
  \A p \in Operands :
    (ts = C23_Text(p) /\ pc # "start") =>
      /\ x = C23_Function(Parse(p, MaxNest))
      /\ (pc = "rendered" /\ ~IsStrErr(Str(Parse(p, MaxNest)))) =>
           text = C23_Text(Str(Parse(p, MaxNest)))
      /\ pc = "reparsed" =>
           /\ y = C23_Function(Parse(Str(Parse(p, MaxNest)), MaxNest))
           /\ Parse(Str(Parse(p, MaxNest)), MaxNest) = Parse(p, MaxNest) => y = x

\* "fun(Foo, ...)": rendered as written and parsed back to the same function
C23_Witness ==
  /\ pc = "reparsed"
  /\ ts = <<"fun", "(", "Foo", ",", WS, "...", ")">>
  /\ x = FunctionType(<<Param(NoName, ClassType(<<"Foo">>)),
                        Param(NoName, VariadicType(AnyType))>>, None)
  /\ text = ts
  /\ y = x

\* the raw function members a class declares, and the resolved type of a
\* declared return under the bindings of x
C24_Functions(n) == SelectSeq(Catalog[n].members, LAMBDA m : m.type = "fn")
C24_Resolved(raw) ==
  IF x.cls = "ClassType" THEN C5_Expected(raw)
  ELSE substitute_typevars(C5_Expected(raw), TypevarCtx(x.name, x.type_args), MaxNest)

\* the declared returns of m are the single nil
C24_SingleNil(m) ==
  Len(m.returns) = 1 /\ Core(C5_Expected(m.returns[1].typ)) = NilType

\* C24: for a documented function whose record declares k >= 1 returns, the
\* single nil aside, the returns view has exactly k entries, and the i-th
\* pairs the name and the description of the i-th declared return with the
\* resolved type of that return; with k = 1 the type of the entry is the whole
\* return type of the function, a tuple of any length included.
C24_PositionalReturns ==
  (/\ pc = "queried"
   /\ x.cls \in {"ClassType", "GenericClassInstanceType"}
   /\ ~IsErr(members)) =>
    \A j \in 1..Len(C24_Functions(x.name)) :
      LET m == C24_Functions(x.name)[j]
          fn == C4_Member(members, m.name)
          view == Returns(fn, m)
      IN (Len(m.returns) >= 1 /\ ~C24_SingleNil(m)) =>
           /\ ~IsErr(view)
           /\ Len(view.items) = Len(m.returns)
           /\ \A i \in 1..Len(m.returns) :
                /\ view.items[i].name = m.returns[i].name
                /\ view.items[i].desc = m.returns[i].desc
                /\ view.items[i].typ = C24_Resolved(m.returns[i].typ)
           /\ Len(m.returns) = 1 => view.items[1].typ = fn.rets

\* class Fns, function tup1 with the one declared return "(string)": the
\* entry of the view has the type string, the function returns the tuple
C24_OneTupleUnpacked ==
  /\ pc = "queried"
  /\ x = ClassType(<<"Fns">>)
  /\ ~IsErr(members)
  /\ C4_Member(members, "tup1").rets = TupleType(<<StringType>>)
  /\ Returns(C4_Member(members, "tup1"), C24_Functions(<<"Fns">>)[2]) =
       List(<<DocumentedParameter("r", "a tuple", StringType, <<"(", "string", ")">>)>>)

\* the input without its last token, and the value that text parses to
C25_Prefix == SubSeq(ts, 1, Len(ts) - 1)
C25_Inner == Parse(C25_Prefix, MaxNest)

\* the texts t the claim is about: ts is t followed by "?", t parses to a
\* value that is no optional at its top level, and the "?" is a suffix of the
\* whole of t (it is neither inside the return type of a function nor after
\* a variadic marker)
C25_Applies ==
  /\ Len(ts) >= 2
  /\ ts[Len(ts)] = "?"
  /\ ~IsErr(C25_Inner)
  /\ C25_Inner.cls \notin {"OptionalType", "VariadicType"}
  /\ ~(C25_Inner.cls = "FunctionType" /\ C25_Inner.rets # None)

\* C25: a trailing "?" always produces an optional: when t parses to p and p
\* is no optional at its top level, t"?" parses to the optional whose inner
\* value is p, an array of an optional included, and its text is str(p)"?",
\* with str(p) in parentheses only when p itself is a function.
C25_TrailingOptional ==
  C25_Applies =>
    /\ pc # "start" => x = [cls |-> "OptionalType", inner |-> C25_Inner]
    /\ (pc = "rendered" /\ ~IsStrErr(Str(C25_Inner))) =>
         text = IF C25_Inner.cls = "FunctionType"
                THEN <<"(">> \o Str(C25_Inner) \o <<")", "?">>
                ELSE Str(C25_Inner) \o <<"?">>

\* "string?[]?": the array of the optional string comes back unchanged
C25_ArrayNotWrapped ==
  /\ pc = "parsed"
  /\ ts = <<"string", "?", "[]", "?">>
  /\ C25_Inner = ArrayType(OptionalType(StringType))
  /\ x = C25_Inner

\* what an item of a parenthesised list contributes to the reduced list of the
\* kind cls: the elements of a genuine list of that kind, the inner value of
\* a genuine optional in a union (its elements, when it is a union), and
\* otherwise the item itself
C26_Contribution(item, cls) ==
  IF item.cls = cls THEN item.elements
  ELSE IF item.cls = "OptionalType" /\ cls = "UnionType"
  THEN IF item.inner.cls = cls THEN item.inner.elements ELSE <<item.inner>>
  ELSE <<item>>

\* the items whose wrapped list or optional must stay in one piece: an array
\* of a union, of an intersection or of an optional
C26_Wrapped == {<<"(", "a", "|", "b", ")", "[]">>,
                <<"(", "a", WS, "&", WS, "b", ")", "[]">>,
                <<"a", "?", "[]">>}

\* C26: when a parenthesised union (intersection) is reduced, only the items
\* that are themselves a union (intersection) contribute their elements and
\* only the items that are themselves an optional are unwrapped; an array
\* that wraps a union, an intersection or an optional stays one element of
\* the result, unchanged.
C26_OnlyGenuineFlattened ==
  pc = "parsed" =>
    \A p \in Operands, q \in Operands :
      /\ ts = <<"(">> \o p \o <<"|">> \o q \o <<")">> =>
           /\ ~IsErr(x)
           /\ Core(x).elements =
                C26_Contribution(Parse(p, MaxNest), "UnionType") \o
                C26_Contribution(Parse(q, MaxNest), "UnionType")
           /\ q \in C26_Wrapped =>
                Core(x).elements[Len(Core(x).elements)] = Parse(q, MaxNest)
      /\ ts = <<"(">> \o p \o <<WS, "&", WS>> \o q \o <<")">> =>
           /\ ~IsErr(x)
           /\ x.elements =
                C26_Contribution(Parse(p, MaxNest), "IntersectionType") \o
                C26_Contribution(Parse(q, MaxNest), "IntersectionType")
           /\ q \in C26_Wrapped =>
                x.elements[Len(x.elements)] = Parse(q, MaxNest)

\* "(string|(a|b)[])": the array of the union is flattened into the union
C26_ArrayOfUnionFlattened ==
  /\ pc = "parsed"
  /\ ts = <<"(", "string", "|", "(", "a", "|", "b", ")", "[]", ")">>
  /\ Parse(<<"(", "a", "|", "b", ")", "[]">>, MaxNest) =
       ArrayType(UnionType(<<StructType(<<"a">>), StructType(<<"b">>)>>, FALSE))
  /\ x = UnionType(<<StringType, StructType(<<"a">>), StructType(<<"b">>)>>, FALSE)

\* C27: the optionality of a union item is hoisted, never lost: a
\* parenthesised union reduces to Optional(Union(...)) if and only if at least
\* one item is an optional, and each optional item is replaced by its inner
\* type in the element list; the inner type of an optional that wraps a union
\* contributes its elements, so "((a|b)?|c)" is Optional(Union[a, b, c]).
C27_OptionalityHoisted ==
  pc = "parsed" =>
    \A p \in Operands, q \in Operands :
      ts = <<"(">> \o p \o <<"|">> \o q \o <<")">> =>
        LET optional == \E item \in {Parse(p, MaxNest), Parse(q, MaxNest)} :
                          item.cls = "OptionalType"
            elements == C26_Contribution(Parse(p, MaxNest), "UnionType") \o
                        C26_Contribution(Parse(q, MaxNest), "UnionType")
        IN /\ ~IsErr(x)
           /\ x.cls = "OptionalType" <=> optional
           /\ optional => /\ x.inner.cls = "UnionType"
                          /\ x.inner.elements = elements

\* "((a|b)?|string)": the union of a, b and string, no longer optional
C27_OptionalityLost ==
  /\ pc = "parsed"
  /\ ts = <<"(", "(", "a", "|", "b", ")", "?", "|", "string", ")">>
  /\ Parse(<<"(", "a", "|", "b", ")", "?">>, MaxNest) =
       OptionalType(UnionType(<<StructType(<<"a">>), StructType(<<"b">>)>>, FALSE))
  /\ x = UnionType(<<StructType(<<"a">>), StructType(<<"b">>), StringType>>, FALSE)

\* the aliases the underlying type of the declaration n names, and the
\* aliases reached from a set of them in at most k steps
C28_Refs(n) ==
  {a \in aliases : \E i \in 1..Len(Catalog[n].typ) : a = <<Catalog[n].typ[i]>>}
RECURSIVE C28_Reach(_, _)
C28_Reach(S, k) ==
  IF k = 0 THEN S ELSE C28_Reach(S \cup UNION {C28_Refs(n) : n \in S}, k - 1)

\* no alias reaches itself again through alias references
C28_AliasesAcyclic ==
  \A a \in aliases : a \notin C28_Reach(C28_Refs(a), Cardinality(aliases))

\* C28: in a catalog where no alias reaches itself through alias references,
\* parse ends for every text: the nesting of parser calls made while a value
\* is built stays bounded, also for a text that names a class with an
\* inheritance cycle or an enum whose field types mention the enum itself or
\* an alias that mentions it.
C28_ParseTerminates ==
  (C28_AliasesAcyclic /\ pc # "start") => x # Err("RecursionError")

\* "Ring?", enum Ring with the field next: RingRef, alias RingRef = Ring[]:
\* building the enum value parses the type of the field, which resolves the
\* alias, which builds the enum value again
C28_EnumRecursesForever ==
  /\ pc = "parsed"
  /\ ts = <<"Ring", "?">>
  /\ C28_AliasesAcyclic
  /\ \E i \in 1..Len(Catalog[<<"Ring">>].members) :
       Catalog[<<"Ring">>].members[i].typ = <<"RingRef">>
  /\ Catalog[<<"RingRef">>].typ = <<"Ring", "[]">>
  /\ x = Err("RecursionError")

\* the text of fn has no "->" part: it is the text of its parameter list alone
C29_NoArrow(fn) == Str(fn) = Str([fn EXCEPT !.rets = None])

\* C29: a function member is hydrated as void (rets absent, is_void() true,
\* text fun(params) without a "->" part) exactly when its record declares no
\* returns at all or the single return nil; with one return that is not nil
\* rets is the type of that return, and with two or more returns rets is the
\* tuple of their types in order.
C29_VoidDetection ==
  (/\ pc = "queried"
   /\ x.cls \in {"ClassType", "GenericClassInstanceType"}
   /\ ~IsErr(members)) =>
    \A j \in 1..Len(C24_Functions(x.name)) :
      LET m == C24_Functions(x.name)[j]
          fn == C4_Member(members, m.name)
          k == Len(m.returns)
      IN /\ is_void(fn) <=> (k = 0 \/ C24_SingleNil(m))
         /\ is_void(fn) <=> C29_NoArrow(fn)
         /\ (k = 1 /\ ~C24_SingleNil(m)) => fn.rets = C24_Resolved(m.returns[1].typ)
         /\ k >= 2 => fn.rets = TupleType([i \in 1..k |-> C24_Resolved(m.returns[i].typ)])

\* class Fns, function none(p: string) with no declared return: rets is the
\* empty tuple, the function is not void and its text ends in "-> ()"
C29_NoReturnsNotVoid ==
  /\ pc = "queried"
  /\ x = ClassType(<<"Fns">>)
  /\ ~IsErr(members)
  /\ C24_Functions(<<"Fns">>)[5].name = "none"
  /\ C24_Functions(<<"Fns">>)[5].returns = <<>>
  /\ C4_Member(members, "none").rets = TupleType(<<>>)
  /\ ~is_void(C4_Member(members, "none"))
  /\ Str(C4_Member(members, "none")) =
       <<"fun", "(", "p", ":", WS, "string", ")", WS, "->", WS, "(", ")">>

\* the titles of the sections that are open, outermost first
C30_OpenTitles == [i \in 1..Len(frames) |-> frames[i].title]

\* C30: while the body of a section is rendered, the section stack holds the
\* titles of the enclosing sections and its own, the heading level of the
\* section is the depth of the stack, the current node of the table of
\* contents is the node of the section and the anchor prefix is its resolved
\* anchor; when a section has ended, by completing or by a failure of its
\* body, the section stack, the current node and the anchor prefix are what
\* they were before it started.
C30_ProperlyNested ==
  /\ frames # <<>> =>
       LET frame == frames[Len(frames)]
       IN /\ section_stack = C30_OpenTitles
          /\ frame.level = Len(frames)
          /\ toc.cur = frame.node
          /\ dicts[frame.prev_cur].items[frame.title] = frame.node
          /\ anchor_prefix = frame.anchor
          /\ dicts[frame.node].__a__ = frame.anchor
  /\ last.outcome # "none" =>
       <<section_stack, toc.cur, anchor_prefix>> = last.entered

\* a section with the title "A b" and the anchor true, opened at top level
\* under the project name "A", has just failed in its body: the stack still
\* holds its title, and the current node and the anchor prefix are still
\* those of the section
C30_LeftOpenAfterFailure ==
  /\ frames = <<>>
  /\ last.outcome = "failed"
  /\ last.entered = <<<<>>, toc.index, <<"A">>>>
  /\ section_stack = <<<<"A", " ", "b">>>>
  /\ toc.cur # toc.index
  /\ dicts[toc.index].items[<<"A", " ", "b">>] = toc.cur
  /\ anchor_prefix = <<"A", "-", "a", "-", "b">>

====
